---- MODULE Spec2Model ----
(***************************************************************************)
(* Model of the Shell Motorsport RC car control library: the 16-byte       *)
(* control frame, the AES-128 ECB framing, the precomputed command table   *)
(* and the BLE link operations of ShellMotorsportCar.                      *)
(*                                                                         *)
(* Bytes are integers 0..255, byte strings are sequences of bytes          *)
(* (index 1 is Python index 0) and text strings are sequences of           *)
(* character codes.                                                        *)
(***************************************************************************)
EXTENDS Integers, Sequences, FiniteSets, TLC

(***************************************************************************)
(* config.py                                                               *)
(***************************************************************************)
\* bytes.fromhex("34522a5b7a6e492c08090a9d8d2a23f8")
AES_KEY ==
  <<52, 82, 42, 91, 122, 110, 73, 44, 8, 9, 10, 157, 141, 42, 35, 248>>

\* bytes.fromhex("e1055f54d880f49c2ce547267f930bf2")
IDLE_MESSAGE ==
  <<225, 5, 95, 84, 216, 128, 244, 156, 44, 229, 71, 38, 127, 147, 11, 242>>

\* b"CTL"
CONTROL_PREFIX == <<67, 84, 76>>

DEFAULT_SPEED == 80

(***************************************************************************)
(* AES-128 on one block, as Crypto.Cipher.AES computes it in ECB mode      *)
(* (FIPS-197).  The state is kept in input order: byte r + 4c of the       *)
(* block is row r, column c.                                               *)
(***************************************************************************)
\* exclusive or of two 4-bit values a and b: XorNibble[a + 1][b + 1]
XorNibble ==
  <<<<0, 1, 2, 3, 4, 5, 6, 7, 8, 9, 10, 11, 12, 13, 14, 15>>,
     <<1, 0, 3, 2, 5, 4, 7, 6, 9, 8, 11, 10, 13, 12, 15, 14>>,
     <<2, 3, 0, 1, 6, 7, 4, 5, 10, 11, 8, 9, 14, 15, 12, 13>>,
     <<3, 2, 1, 0, 7, 6, 5, 4, 11, 10, 9, 8, 15, 14, 13, 12>>,
     <<4, 5, 6, 7, 0, 1, 2, 3, 12, 13, 14, 15, 8, 9, 10, 11>>,
     <<5, 4, 7, 6, 1, 0, 3, 2, 13, 12, 15, 14, 9, 8, 11, 10>>,
     <<6, 7, 4, 5, 2, 3, 0, 1, 14, 15, 12, 13, 10, 11, 8, 9>>,
     <<7, 6, 5, 4, 3, 2, 1, 0, 15, 14, 13, 12, 11, 10, 9, 8>>,
     <<8, 9, 10, 11, 12, 13, 14, 15, 0, 1, 2, 3, 4, 5, 6, 7>>,
     <<9, 8, 11, 10, 13, 12, 15, 14, 1, 0, 3, 2, 5, 4, 7, 6>>,
     <<10, 11, 8, 9, 14, 15, 12, 13, 2, 3, 0, 1, 6, 7, 4, 5>>,
     <<11, 10, 9, 8, 15, 14, 13, 12, 3, 2, 1, 0, 7, 6, 5, 4>>,
     <<12, 13, 14, 15, 8, 9, 10, 11, 4, 5, 6, 7, 0, 1, 2, 3>>,
     <<13, 12, 15, 14, 9, 8, 11, 10, 5, 4, 7, 6, 1, 0, 3, 2>>,
     <<14, 15, 12, 13, 10, 11, 8, 9, 6, 7, 4, 5, 2, 3, 0, 1>>,
     <<15, 14, 13, 12, 11, 10, 9, 8, 7, 6, 5, 4, 3, 2, 1, 0>>>>

\* a ^ b on bytes
Xor(a, b) ==
  16 * XorNibble[(a \div 16) + 1][(b \div 16) + 1]
  + XorNibble[(a % 16) + 1][(b % 16) + 1]

\* the byte string with the elements of f, an n-element function on 1..n
Bytes(f, n) == SubSeq(f, 1, n)

XorBytes(s, t) == Bytes([i \in 1..Len(s) |-> Xor(s[i], t[i])], Len(s))

SBox ==
  <<99, 124, 119, 123, 242, 107, 111, 197, 48, 1, 103, 43, 254, 215, 171, 118,
     202, 130, 201, 125, 250, 89, 71, 240, 173, 212, 162, 175, 156, 164, 114, 192,
     183, 253, 147, 38, 54, 63, 247, 204, 52, 165, 229, 241, 113, 216, 49, 21,
     4, 199, 35, 195, 24, 150, 5, 154, 7, 18, 128, 226, 235, 39, 178, 117,
     9, 131, 44, 26, 27, 110, 90, 160, 82, 59, 214, 179, 41, 227, 47, 132,
     83, 209, 0, 237, 32, 252, 177, 91, 106, 203, 190, 57, 74, 76, 88, 207,
     208, 239, 170, 251, 67, 77, 51, 133, 69, 249, 2, 127, 80, 60, 159, 168,
     81, 163, 64, 143, 146, 157, 56, 245, 188, 182, 218, 33, 16, 255, 243, 210,
     205, 12, 19, 236, 95, 151, 68, 23, 196, 167, 126, 61, 100, 93, 25, 115,
     96, 129, 79, 220, 34, 42, 144, 136, 70, 238, 184, 20, 222, 94, 11, 219,
     224, 50, 58, 10, 73, 6, 36, 92, 194, 211, 172, 98, 145, 149, 228, 121,
     231, 200, 55, 109, 141, 213, 78, 169, 108, 86, 244, 234, 101, 122, 174, 8,
     186, 120, 37, 46, 28, 166, 180, 198, 232, 221, 116, 31, 75, 189, 139, 138,
     112, 62, 181, 102, 72, 3, 246, 14, 97, 53, 87, 185, 134, 193, 29, 158,
     225, 248, 152, 17, 105, 217, 142, 148, 155, 30, 135, 233, 206, 85, 40, 223,
     140, 161, 137, 13, 191, 230, 66, 104, 65, 153, 45, 15, 176, 84, 187, 22>>

InvSBox ==
  <<82, 9, 106, 213, 48, 54, 165, 56, 191, 64, 163, 158, 129, 243, 215, 251,
     124, 227, 57, 130, 155, 47, 255, 135, 52, 142, 67, 68, 196, 222, 233, 203,
     84, 123, 148, 50, 166, 194, 35, 61, 238, 76, 149, 11, 66, 250, 195, 78,
     8, 46, 161, 102, 40, 217, 36, 178, 118, 91, 162, 73, 109, 139, 209, 37,
     114, 248, 246, 100, 134, 104, 152, 22, 212, 164, 92, 204, 93, 101, 182, 146,
     108, 112, 72, 80, 253, 237, 185, 218, 94, 21, 70, 87, 167, 141, 157, 132,
     144, 216, 171, 0, 140, 188, 211, 10, 247, 228, 88, 5, 184, 179, 69, 6,
     208, 44, 30, 143, 202, 63, 15, 2, 193, 175, 189, 3, 1, 19, 138, 107,
     58, 145, 17, 65, 79, 103, 220, 234, 151, 242, 207, 206, 240, 180, 230, 115,
     150, 172, 116, 34, 231, 173, 53, 133, 226, 249, 55, 232, 28, 117, 223, 110,
     71, 241, 26, 113, 29, 41, 197, 137, 111, 183, 98, 14, 170, 24, 190, 27,
     252, 86, 62, 75, 198, 210, 121, 32, 154, 219, 192, 254, 120, 205, 90, 244,
     31, 221, 168, 51, 136, 7, 199, 49, 177, 18, 16, 89, 39, 128, 236, 95,
     96, 81, 127, 169, 25, 181, 74, 13, 45, 229, 122, 159, 147, 201, 156, 239,
     160, 224, 59, 77, 174, 42, 245, 176, 200, 235, 187, 60, 131, 83, 153, 97,
     23, 43, 4, 126, 186, 119, 214, 38, 225, 105, 20, 99, 85, 33, 12, 125>>

Rcon == <<1, 2, 4, 8, 16, 32, 64, 128, 27, 54>>

\* multiplication by x in GF(2^8) modulo x^8 + x^4 + x^3 + x + 1
XTime(a) == IF a >= 128 THEN Xor((2 * a) % 256, 27) ELSE 2 * a

Mul2(a) == XTime(a)
Mul3(a) == Xor(XTime(a), a)
Mul9(a) == Xor(XTime(XTime(XTime(a))), a)
Mul11(a) == Xor(Xor(XTime(XTime(XTime(a))), XTime(a)), a)
Mul13(a) == Xor(Xor(XTime(XTime(XTime(a))), XTime(XTime(a))), a)
Mul14(a) == Xor(Xor(XTime(XTime(XTime(a))), XTime(XTime(a))), XTime(a))

SubBytes(s) == Bytes([i \in 1..16 |-> SBox[s[i] + 1]], 16)
InvSubBytes(s) == Bytes([i \in 1..16 |-> InvSBox[s[i] + 1]], 16)

\* row r is rotated left by r columns
ShiftRows(s) ==
  Bytes([i \in 1..16 |->
     LET r == (i - 1) % 4
         c == (i - 1) \div 4
     IN  s[r + 4 * ((c + r) % 4) + 1]], 16)

InvShiftRows(s) ==
  Bytes([i \in 1..16 |->
     LET r == (i - 1) % 4
         c == (i - 1) \div 4
     IN  s[r + 4 * ((c + 4 - r) % 4) + 1]], 16)

MixColumns(s) ==
  Bytes([i \in 1..16 |->
     LET r == (i - 1) % 4
         c == (i - 1) \div 4
         a(k) == s[4 * c + ((r + k) % 4) + 1]
     IN  Xor(Xor(Mul2(a(0)), Mul3(a(1))), Xor(a(2), a(3)))], 16)

InvMixColumns(s) ==
  Bytes([i \in 1..16 |->
     LET r == (i - 1) % 4
         c == (i - 1) \div 4
         a(k) == s[4 * c + ((r + k) % 4) + 1]
     IN  Xor(Xor(Mul14(a(0)), Mul11(a(1))), Xor(Mul13(a(2)), Mul9(a(3))))], 16)

\* round key r of the key schedule from round key r - 1 (16 bytes each)
NextRoundKey(k, r) ==
  LET a == <<Xor(Xor(k[1], SBox[k[14] + 1]), Rcon[r]),
             Xor(k[2], SBox[k[15] + 1]),
             Xor(k[3], SBox[k[16] + 1]),
             Xor(k[4], SBox[k[13] + 1])>>
      b == XorBytes(SubSeq(k, 5, 8), a)
      c == XorBytes(SubSeq(k, 9, 12), b)
      d == XorBytes(SubSeq(k, 13, 16), c)
  IN  a \o b \o c \o d

\* one round of the cipher on state s with round key k
Round(s, k) == XorBytes(MixColumns(ShiftRows(SubBytes(s))), k)

\* one round of the inverse cipher on state s with round key k
InvRound(s, k) == InvMixColumns(XorBytes(InvSubBytes(InvShiftRows(s)), k))

\* the round keys 0..10 of the key schedule, keys holding those before r
RECURSIVE KeyExpansion(_, _)
KeyExpansion(keys, r) ==
  IF r > 10 THEN keys
  ELSE KeyExpansion(Append(keys, NextRoundKey(keys[r], r)), r + 1)

\* rounds r..10 of the cipher on s, the 16-byte state after round r - 1
RECURSIVE Cipher(_, _, _)
Cipher(s, keys, r) ==
  IF Len(s) = 16 /\ r < 10
  THEN Cipher(Round(s, keys[r + 1]), keys, r + 1)
  ELSE XorBytes(ShiftRows(SubBytes(s)), keys[11])

\* rounds r..1 of the inverse cipher on s, the 16-byte state before round r,
\* and the removal of round key 0
RECURSIVE InvCipher(_, _, _)
InvCipher(s, keys, r) ==
  IF Len(s) = 16 /\ r > 0
  THEN InvCipher(InvRound(s, keys[r + 1]), keys, r - 1)
  ELSE XorBytes(InvSubBytes(InvShiftRows(s)), keys[1])

EncryptWith(keys, block) == Cipher(XorBytes(block, keys[1]), keys, 1)
DecryptWith(keys, block) == InvCipher(XorBytes(block, keys[11]), keys, 9)

\* AES.new(key, AES.MODE_ECB).encrypt(block), Len(key) = Len(block) = 16
AESEncryptBlock(k, block) == EncryptWith(KeyExpansion(<<k>>, 1), block)

\* AES.new(key, AES.MODE_ECB).decrypt(block), Len(key) = Len(block) = 16
AESDecryptBlock(k, block) == DecryptWith(KeyExpansion(<<k>>, 1), block)

(***************************************************************************)
(* Text: str() of an integer and base64, as character codes                *)
(***************************************************************************)
RECURSIVE Digits(_)
Digits(n) == IF n < 10 THEN <<48 + n>> ELSE Digits(n \div 10) \o <<48 + (n % 10)>>

\* str(n), the decimal text an f-string renders for an int
Str(n) == IF n < 0 THEN <<45>> \o Digits(0 - n) ELSE Digits(n)

\* the character of the 6-bit value v in the standard base64 alphabet
B64Char(v) ==
  IF v < 26 THEN 65 + v
  ELSE IF v < 52 THEN 97 + (v - 26)
  ELSE IF v < 62 THEN 48 + (v - 52)
  ELSE IF v = 62 THEN 43 ELSE 47

\* the 6-bit value of character c, 64 for a character outside the alphabet
B64Value(c) ==
  IF c >= 65 /\ c <= 90 THEN c - 65
  ELSE IF c >= 97 /\ c <= 122 THEN c - 97 + 26
  ELSE IF c >= 48 /\ c <= 57 THEN c - 48 + 52
  ELSE IF c = 43 THEN 62
  ELSE IF c = 47 THEN 63 ELSE 64

\* base64.b64encode(m).decode("utf-8"): each group of three bytes gives four
\* characters, a last group of one or two bytes is padded with '='
b64encode(m) ==
  LET n == Len(m)
      byte(i) == IF i <= n THEN m[i] ELSE 0
      char(j) ==
        LET g  == (j - 1) \div 4
            p  == (j - 1) % 4
            b1 == byte(3 * g + 1)
            b2 == byte(3 * g + 2)
            b3 == byte(3 * g + 3)
        IN  IF p = 0 THEN B64Char(b1 \div 4)
            ELSE IF p = 1 THEN B64Char((b1 % 4) * 16 + (b2 \div 16))
            ELSE IF p = 2
            THEN IF 3 * g + 2 > n THEN 61
                 ELSE B64Char((b2 % 16) * 4 + (b3 \div 64))
            ELSE IF 3 * g + 3 > n THEN 61 ELSE B64Char(b3 % 64)
  IN  Bytes([j \in 1..(4 * ((n + 2) \div 3)) |-> char(j)], 4 * ((n + 2) \div 3))

Ok(v) == [outcome |-> "ok", value |-> v]
Raise(e) == [outcome |-> e, value |-> <<>>]

\* binascii.a2b_base64 without strict mode, from character i of text on:
\* quad is the position in the current group of four, left the bits carried
\* over, pads the '=' seen in a row, out the bytes decoded so far
RECURSIVE B64Scan(_, _, _, _, _, _)
B64Scan(text, i, quad, left, pads, out) ==
  IF i > Len(text)
  THEN IF quad # 0 THEN Raise("binascii.Error") ELSE Ok(out)
  ELSE LET c == text[i]
           v == B64Value(c)
       IN  IF c = 61
           THEN IF quad >= 2 /\ quad + pads + 1 >= 4
                THEN Ok(out)
                ELSE B64Scan(text, i + 1, quad, left,
                             IF quad >= 2 THEN pads + 1 ELSE pads, out)
           ELSE IF v >= 64
           THEN B64Scan(text, i + 1, quad, left, pads, out)
           ELSE IF quad = 0
           THEN B64Scan(text, i + 1, 1, v, 0, out)
           ELSE IF quad = 1
           THEN B64Scan(text, i + 1, 2, v % 16, 0,
                        Append(out, left * 4 + (v \div 16)))
           ELSE IF quad = 2
           THEN B64Scan(text, i + 1, 3, v % 4, 0,
                        Append(out, left * 16 + (v \div 4)))
           ELSE B64Scan(text, i + 1, 0, 0, 0, Append(out, left * 64 + v))

\* base64.b64decode(text) of a str: non-ASCII text is refused, characters
\* outside the alphabet are discarded, wrong padding raises binascii.Error
b64decode(text) ==
  IF \E i \in 1..Len(text) : text[i] > 127
  THEN Raise("ValueError")
  ELSE B64Scan(text, 1, 0, 0, 0, <<>>)

(***************************************************************************)
(* encryption.py: MessageEncryptor                                         *)
(***************************************************************************)
\* MessageEncryptor(key): the key the new object holds
MessageEncryptor(k) == IF Len(k) # 16 THEN Raise("ValueError") ELSE Ok(k)

\* encrypt with the length check loosened: a short message is padded with
\* zero bytes to a block
encrypt_short_padded(k, message) ==
  IF Len(message) > 16 THEN Raise("ValueError")
  ELSE Ok(AESEncryptBlock(k, Bytes([i \in 1..16 |->
            IF i <= Len(message) THEN message[i] ELSE 0], 16)))

\* MessageEncryptor.encrypt on an object holding key k
encrypt(k, message) ==
  IF Len(message) # 16 THEN Raise("ValueError")
  ELSE Ok(AESEncryptBlock(k, message))

\* decrypt running the cipher in the encrypting direction
decrypt_forward(k, encrypted_message) ==
  IF Len(encrypted_message) # 16 THEN Raise("ValueError")
  ELSE Ok(AESEncryptBlock(k, encrypted_message))

\* MessageEncryptor.decrypt on an object holding key k
decrypt(k, encrypted_message) ==
  IF Len(encrypted_message) # 16 THEN Raise("ValueError")
  ELSE Ok(AESDecryptBlock(k, encrypted_message))

(***************************************************************************)
(* shell_motorsport.py: the control frame and the command table            *)
(***************************************************************************)
\* the checks with forward compared against a range instead of [0, 1]
ValidParametersForwardTo2(forward, backward, left, right, speed) ==
  /\ 0 <= forward /\ forward <= 2 /\ backward \in {0, 1}
  /\ left \in {0, 1} /\ right \in {0, 1}
  /\ 0 <= speed /\ speed <= 255

\* the checks at the head of _create_message
ValidParameters(forward, backward, left, right, speed) ==
  /\ forward \in {0, 1} /\ backward \in {0, 1}
  /\ left \in {0, 1} /\ right \in {0, 1}
  /\ 0 <= speed /\ speed <= 255

\* the frame with the speed one byte early
FrameSpeedAtByte8(forward, backward, left, right, speed) ==
  <<0>> \o CONTROL_PREFIX \o <<forward, backward, left, right, speed,
                               0, 0, 0, 0, 0, 0, 0>>

\* the bytearray _create_message fills in and hands to the encryptor
Frame(forward, backward, left, right, speed) ==
  LET zeros  == [i \in 1..16 |-> 0]
      \* message[1:4] = CONTROL_PREFIX replaces the slice by the prefix
      tagged == SubSeq(zeros, 1, 1) \o CONTROL_PREFIX \o SubSeq(zeros, 5, 16)
  IN  [tagged EXCEPT ![1] = 0, ![5] = forward, ![6] = backward, ![7] = left,
                     ![8] = right, ![9] = 0, ![10] = speed]

\* ShellMotorsportCar._create_message; self.encryptor holds AES_KEY
_create_message(forward, backward, left, right, speed) ==
  IF ~ValidParameters(forward, backward, left, right, speed)
  THEN Raise("ValueError")
  ELSE encrypt(AES_KEY, Frame(forward, backward, left, right, speed))

\* the key rendering the speed with two digits
KeyOfTwoDigitSpeed(forward, backward, left, right, speed) ==
  Str(forward) \o Str(backward) \o Str(left) \o Str(right)
    \o Str(speed % 100)

\* key = f"{forward}{backward}{left}{right}{speed}"
Key(forward, backward, left, right, speed) ==
  Str(forward) \o Str(backward) \o Str(left) \o Str(right) \o Str(speed)

\* self.command_list[key] = value
Put(table, k, value) == (k :> value) @@ table

\* retrieval that never consults the table
retrieve_computed_message(table, forward, backward, left, right, speed) ==
  _create_message(forward, backward, left, right, speed)

\* retrieval that answers a miss with IDLE_MESSAGE
retrieve_message_or_idle(table, forward, backward, left, right, speed) ==
  LET k == Key(forward, backward, left, right, speed)
  IN  IF k \in DOMAIN table /\ table[k] # <<>>
      THEN LET message == b64decode(table[k])
           IN  IF message.outcome = "ok" THEN Ok(message.value)
               ELSE Ok(IDLE_MESSAGE)
      ELSE Ok(IDLE_MESSAGE)

\* retrieval computing the message when the stored entry does not decode
retrieve_recomputing_on_error(table, forward, backward, left, right, speed) ==
  LET k == Key(forward, backward, left, right, speed)
  IN  IF k \in DOMAIN table /\ table[k] # <<>>
         /\ b64decode(table[k]).outcome = "ok"
      THEN Ok(b64decode(table[k]).value)
      ELSE _create_message(forward, backward, left, right, speed)

\* ShellMotorsportCar.retrieve_precomputed_message on table command_list
retrieve_precomputed_message(table, forward, backward, left, right, speed) ==
  LET k == Key(forward, backward, left, right, speed)
  IN  IF k \in DOMAIN table /\ table[k] # <<>>
      THEN LET message == b64decode(table[k])
           IN  IF message.outcome = "ok" THEN Ok(message.value)
               ELSE Ok(IDLE_MESSAGE)
      ELSE _create_message(forward, backward, left, right, speed)

speed_values == <<22, 50, 72, 100>>

\* the control state of iteration i (1..64) of the loops of
\* precompute_messages: forward outermost, speed innermost
LoopState(i) ==
  [forward  |-> ((i - 1) \div 32) % 2,
   backward |-> ((i - 1) \div 16) % 2,
   left     |-> ((i - 1) \div 8) % 2,
   right    |-> ((i - 1) \div 4) % 2,
   speed    |-> speed_values[((i - 1) % 4) + 1]]

\* key = f"{forward}{backward}{left}{right}{speed}" of each iteration
LoopKeys ==
  Bytes([i \in 1..64 |->
           LET st == LoopState(i)
           IN  Key(st.forward, st.backward, st.left, st.right, st.speed)], 64)

\* base64.b64encode(message).decode("utf-8") of each iteration's message
LoopEntries ==
  Bytes([i \in 1..64 |->
           LET st == LoopState(i)
           IN  b64encode(_create_message(st.forward, st.backward, st.left,
                                         st.right, st.speed).value)], 64)

\* the loops writing the encoding of IDLE_MESSAGE over an entry they find
RECURSIVE PrecomputeLoopOverwritingIdle(_, _)
PrecomputeLoopOverwritingIdle(table, n) ==
  IF n = 0 THEN table
  ELSE Put(PrecomputeLoopOverwritingIdle(table, n - 1), LoopKeys[n],
           IF LoopKeys[n] \in DOMAIN table THEN b64encode(IDLE_MESSAGE)
           ELSE LoopEntries[n])

\* the loops storing under each key the entry of the next iteration
RECURSIVE PrecomputeLoopOffByOne(_, _)
PrecomputeLoopOffByOne(table, n) ==
  IF n = 0 THEN table
  ELSE Put(PrecomputeLoopOffByOne(table, n - 1), LoopKeys[n],
           LoopEntries[(n % 64) + 1])

\* the table after the first n iterations of the loops of
\* precompute_messages on table
RECURSIVE PrecomputeLoop(_, _)
PrecomputeLoop(table, n) ==
  IF n = 0 THEN table
  ELSE Put(PrecomputeLoop(table, n - 1), LoopKeys[n], LoopEntries[n])

\* what json.load(file) returns in _load_commands: the stored document;
\* a missing file and a file that does not parse both give the empty table
NoTable == [k \in {} |-> <<>>]

\* the file at commands_file: missing, not parseable as JSON, or a document
Absent == [kind |-> "absent", doc |-> NoTable]
Corrupt == [kind |-> "corrupt", doc |-> NoTable]
Document(table) == [kind |-> "document", doc |-> table]

_load_commands(file) == IF file.kind = "document" THEN file.doc ELSE NoTable

\* _save_commands logging a failure and returning
_save_commands_swallowing(table, file, fault) ==
  IF fault = "open" THEN [file |-> file, result |-> Ok(<<>>)]
  ELSE IF fault = "dump" THEN [file |-> Corrupt, result |-> Ok(<<>>)]
  ELSE [file |-> Document(table), result |-> Ok(<<>>)]

\* _save_commands() of table over file: the document is written; or open()
\* fails and leaves the file; or json.dump fails on the file open() has
\* truncated; a failure is logged and raised again
_save_commands(table, file, fault) ==
  IF fault = "open" THEN [file |-> file, result |-> Raise("OSError")]
  ELSE IF fault = "dump" THEN [file |-> Corrupt, result |-> Raise("OSError")]
  ELSE [file |-> Document(table), result |-> Ok(<<>>)]

\* the empty vehicle_list, and _load_vehicle_list on the file at
\* vehicle_list_file: a missing file and one that does not load give {}
NoVehicles == [k \in {} |-> <<>>]
_load_vehicle_list(file) ==
  IF file.kind = "document" THEN file.doc ELSE NoVehicles

\* vehicle_list.get(car_name): <<>> for None, <<device_id>> otherwise
get_device_id(table, car_name) ==
  IF car_name \in DOMAIN table THEN <<table[car_name]>> ELSE <<>>

\* sub in s, for two str
Contains(sub, s) ==
  \E i \in 0..(Len(s) - Len(sub)) : SubSeq(s, i + 1, i + Len(sub)) = sub

(***************************************************************************)
(* Python values: what a controller snapshot is made of                    *)
(***************************************************************************)
\* a value and its type; a str is its character codes, a dict a function
\* on its keys, a float a whole number of Unit-ths
None == [t |-> "None", v |-> 0]
PyBool(b) == [t |-> "bool", v |-> b]
PyInt(n) == [t |-> "int", v |-> n]
PyFloat(x) == [t |-> "float", v |-> x]
PyStr(s) == [t |-> "str", v |-> s]
PyList(s) == [t |-> "list", v |-> s]
PyDict(f) == [t |-> "dict", v |-> f]
True == PyBool(TRUE)
False == PyBool(FALSE)

\* float("inf") and float("-inf")
Inf == [t |-> "inf", v |-> 1]
NegInf == [t |-> "inf", v |-> -1]

\* floats are counted in units of 1 / 65536000, in which the decimal
\* k / 1000, the quotient n / 32768.0 and the mean of two of either are whole
Milli(k) == k * 65536
Float(k) == PyFloat(Milli(k))

\* the characters of the keys looked for with the in operator
Chars(k) ==
  CASE k = "right" -> <<114, 105, 103, 104, 116>>
    [] k = "left" -> <<108, 101, 102, 116>>
    [] k = "analogs" -> <<97, 110, 97, 108, 111, 103, 115>>
    [] k = "analog-sticks" -> <<97, 110, 97, 108, 111, 103, 45, 115, 116, 105, 99, 107, 115>>
    [] k = "stick" -> <<115, 116, 105, 99, 107>>
    [] k = "right_stick_x" -> <<114, 105, 103, 104, 116, 95, 115, 116, 105, 99, 107, 95, 120>>
    [] k = "right_stick_y" -> <<114, 105, 103, 104, 116, 95, 115, 116, 105, 99, 107, 95, 121>>
    [] k = "left_stick_x" -> <<108, 101, 102, 116, 95, 115, 116, 105, 99, 107, 95, 120>>
    [] k = "left_stick_y" -> <<108, 101, 102, 116, 95, 115, 116, 105, 99, 107, 95, 121>>

\* x[k]
Subscript(x, k) ==
  IF x.t # "dict" THEN Raise("TypeError")
  ELSE IF k \in DOMAIN x.v THEN Ok(x.v[k])
  ELSE Raise("KeyError")

\* x.get(k, default)
Get(x, k, default) ==
  IF x.t # "dict" THEN Raise("AttributeError")
  ELSE Ok(IF k \in DOMAIN x.v THEN x.v[k] ELSE default)

\* k in x
In(k, x) ==
  CASE x.t = "dict" -> Ok(k \in DOMAIN x.v)
    [] x.t = "str" -> Ok(Contains(Chars(k), x.v))
    [] x.t = "list" -> Ok(\E i \in DOMAIN x.v : x.v[i] = PyStr(Chars(k)))
    [] OTHER -> Raise("TypeError")

\* bool(x)
Truth(x) ==
  CASE x.t = "bool" -> x.v
    [] x.t \in {"int", "float"} -> x.v # 0
    [] x.t \in {"str", "list"} -> x.v # <<>>
    [] x.t = "dict" -> DOMAIN x.v # {}
    [] x.t = "inf" -> TRUE
    [] OTHER -> FALSE

\* the value of d.get(k1, d.get(k2, .. default)) on a dict d
RECURSIVE FirstOf(_, _, _)
FirstOf(d, names, default) ==
  IF names = <<>> THEN default
  ELSE IF Head(names) \in DOMAIN d.v THEN d.v[Head(names)]
  ELSE FirstOf(d, Tail(names), default)

\* x / 32768.0 if x != 0 else 0.0, for an int x (a bool is one)
Normalize(x) ==
  CASE x.t = "int" -> PyFloat(x.v * 2000)
    [] x.t = "bool" -> PyFloat(IF x.v THEN 2000 ELSE 0)
    [] OTHER -> x

\* abs(x), x < 0, x > 0, x - y raise TypeError on what is not a number
IsFloat(x) == x.t = "float"

\* format(x, ".3f"): TypeError on None and containers, ValueError on a str
Format3f(x) ==
  CASE x.t \in {"float", "int", "bool", "inf"} -> "ok"
    [] x.t = "str" -> "ValueError"
    [] OTHER -> "TypeError"

(***************************************************************************)
(* joycon_handler.py                                                       *)
(***************************************************************************)
DEFAULT_SPEED_PROFILES == [low |-> 22, medium |-> 50, high |-> 72, max |-> 100]

\* JOYCON_DEADZONE, 0.1
JOYCON_DEADZONE == Milli(100)

\* the center _get_steering_from_offset_axis takes before calibration, 0.057
FallbackCenter == Milli(57)

\* the threshold of the steering log lines, 0.01
LogThreshold == Milli(10)

\* max_samples of _update_center_calibration
max_samples == 100

Abs(n) == IF n < 0 THEN -n ELSE n

\* the stick side and the speed-tier buttons of each device_type, in the
\* order _get_speed_from_buttons tests them
SideOf == [Plus |-> "right", Minus |-> "left"]
TierOrder == <<"low", "medium", "high", "max">>
SpeedButtons ==
  [Plus |-> <<"a", "b", "y", "x">>,
   Minus |-> <<"left", "down", "right", "up">>]

\* JoyConHandler(): the calibration state of a new handler
NewHandler ==
  [y_center |-> None, y_min |-> Inf, y_max |-> NegInf, samples |-> <<>>,
   calibrated |-> FALSE]

\* the deadzone taking in its threshold
_apply_deadzone_inclusive(value, deadzone) ==
  IF Abs(value) <= deadzone THEN 0 ELSE value

\* _apply_deadzone(value, deadzone), on floats
_apply_deadzone(value, deadzone) ==
  IF Abs(value) < deadzone THEN 0 ELSE value

\* a < b on floats and the infinities
Lt(a, b) ==
  IF a.t = "inf" THEN a.v = -1 /\ ~(b.t = "inf" /\ b.v = -1)
  ELSE IF b.t = "inf" THEN b.v = 1
  ELSE a.v < b.v

\* sorted(samples)[len(samples) // 2]
Median(samples) ==
  LET k == Len(samples) \div 2
  IN  CHOOSE x \in {samples[i] : i \in DOMAIN samples} :
        /\ Cardinality({i \in DOMAIN samples : Lt(samples[i], x)}) <= k
        /\ Cardinality({i \in DOMAIN samples : ~Lt(x, samples[i])}) > k

\* the calibration counting the samples equal to 0.0 as well
_update_center_calibration_counting_zero(h, y_value, n) ==
  IF ~IsFloat(y_value) THEN [exc |-> "TypeError", h |-> h]
  ELSE LET lo == IF Lt(y_value, h.y_min) THEN y_value ELSE h.y_min
           hi == IF Lt(h.y_max, y_value) THEN y_value ELSE h.y_max
           grown == [h EXCEPT !.y_min = lo, !.y_max = hi,
                              !.samples = Append(h.samples, y_value)]
       IN  [exc |-> "none",
            h |-> IF Len(grown.samples) >= n /\ ~h.calibrated
                  THEN [grown EXCEPT
                          !.y_center = PyFloat((lo.v + hi.v) \div 2),
                          !.calibrated = TRUE]
                  ELSE grown]

\* the calibration computing the center anew at every sample from the
\* n-th on
_update_center_calibration_again(h, y_value, n) ==
  IF IsFloat(y_value) /\ y_value.v = 0 THEN [exc |-> "none", h |-> h]
  ELSE IF ~IsFloat(y_value) THEN [exc |-> "TypeError", h |-> h]
  ELSE LET lo == IF Lt(y_value, h.y_min) THEN y_value ELSE h.y_min
           hi == IF Lt(h.y_max, y_value) THEN y_value ELSE h.y_max
           grown == [h EXCEPT !.y_min = lo, !.y_max = hi,
                              !.samples = Append(h.samples, y_value)]
       IN  [exc |-> "none",
            h |-> IF Len(grown.samples) >= n
                  THEN [grown EXCEPT
                          !.y_center = PyFloat((lo.v + hi.v) \div 2),
                          !.calibrated = TRUE]
                  ELSE grown]

\* the calibration taking the median of the samples for the center
_update_center_calibration_by_median(h, y_value, n) ==
  IF IsFloat(y_value) /\ y_value.v = 0 THEN [exc |-> "none", h |-> h]
  ELSE IF ~IsFloat(y_value) THEN [exc |-> "TypeError", h |-> h]
  ELSE LET lo == IF Lt(y_value, h.y_min) THEN y_value ELSE h.y_min
           hi == IF Lt(h.y_max, y_value) THEN y_value ELSE h.y_max
           grown == [h EXCEPT !.y_min = lo, !.y_max = hi,
                              !.samples = Append(h.samples, y_value)]
       IN  [exc |-> "none",
            h |-> IF Len(grown.samples) >= n /\ ~h.calibrated
                  THEN [grown EXCEPT !.y_center = Median(grown.samples),
                                     !.calibrated = TRUE]
                  ELSE grown]

\* _update_center_calibration(y_value, n) on the calibration state h;
\* min() and max() raise TypeError on what is not a number
_update_center_calibration(h, y_value, n) ==
  IF IsFloat(y_value) /\ y_value.v = 0 THEN [exc |-> "none", h |-> h]
  ELSE IF ~IsFloat(y_value) THEN [exc |-> "TypeError", h |-> h]
  ELSE LET lo == IF Lt(y_value, h.y_min) THEN y_value ELSE h.y_min
           hi == IF Lt(h.y_max, y_value) THEN y_value ELSE h.y_max
           grown == [h EXCEPT !.y_min = lo, !.y_max = hi,
                              !.samples = Append(h.samples, y_value)]
       IN  [exc |-> "none",
            h |-> IF Len(grown.samples) >= n /\ ~h.calibrated
                  THEN [grown EXCEPT
                          !.y_center =
                            IF lo.t # "inf" /\ hi.t # "inf"
                            THEN PyFloat((lo.v + hi.v) \div 2)
                            ELSE Median(grown.samples),
                          !.calibrated = TRUE]
                  ELSE grown]

\* the offset axis setting both flags away from the center
_get_steering_from_offset_axis_both(axis_value, center, threshold) ==
  LET offset == axis_value.v
                  - (IF center.t = "None" THEN FallbackCenter ELSE center.v)
  IN  IF Abs(offset) < threshold THEN <<0, 0>> ELSE <<1, 1>>

\* the offset axis steering only beyond the threshold
_get_steering_from_offset_axis_beyond(axis_value, center, threshold) ==
  LET offset == axis_value.v
                  - (IF center.t = "None" THEN FallbackCenter ELSE center.v)
  IN  IF Abs(offset) <= threshold THEN <<0, 0>>
      ELSE <<IF offset < 0 THEN 1 ELSE 0, IF offset > 0 THEN 1 ELSE 0>>

\* _get_steering_from_offset_axis(axis_value, center, threshold): <<left,
\* right>>
_get_steering_from_offset_axis(axis_value, center, threshold) ==
  LET offset == axis_value.v
                  - (IF center.t = "None" THEN FallbackCenter ELSE center.v)
  IN  IF Abs(offset) < threshold THEN <<0, 0>>
      ELSE <<IF offset < 0 THEN 1 ELSE 0, IF offset > 0 THEN 1 ELSE 0>>

\* status["buttons"][side][name]
ButtonAt(status, side, name) ==
  LET buttons == Subscript(status, "buttons")
  IN  IF buttons.outcome # "ok" THEN buttons
      ELSE LET held == Subscript(buttons.value, side)
           IN  IF held.outcome # "ok" THEN held
               ELSE Subscript(held.value, name)

\* the if / elif chain of _get_speed_from_buttons from its i-th test on:
\* <<>> for None; KeyError and TypeError are caught and give None
RECURSIVE SpeedScan(_, _, _)
SpeedScan(status, device_type, i) ==
  IF i > 4 THEN <<>>
  ELSE LET pressed == ButtonAt(status, SideOf[device_type],
                               SpeedButtons[device_type][i])
       IN  IF pressed.outcome # "ok" THEN <<>>
           ELSE IF Truth(pressed.value)
           THEN <<DEFAULT_SPEED_PROFILES[TierOrder[i]]>>
           ELSE SpeedScan(status, device_type, i + 1)

\* the chain testing the buttons from the last to the first
RECURSIVE SpeedScanLastWins(_, _, _)
SpeedScanLastWins(status, device_type, i) ==
  IF i < 1 THEN <<>>
  ELSE LET pressed == ButtonAt(status, SideOf[device_type],
                               SpeedButtons[device_type][i])
       IN  IF pressed.outcome # "ok" THEN <<>>
           ELSE IF Truth(pressed.value)
           THEN <<DEFAULT_SPEED_PROFILES[TierOrder[i]]>>
           ELSE SpeedScanLastWins(status, device_type, i - 1)

_get_speed_from_buttons_last_wins(status, device_type) ==
  IF device_type \in {"Plus", "Minus"}
  THEN SpeedScanLastWins(status, device_type, 4)
  ELSE <<>>

\* _get_speed_from_buttons(status, device_type)
_get_speed_from_buttons(status, device_type) ==
  IF device_type \in {"Plus", "Minus"}
  THEN SpeedScan(status, device_type, 1)
  ELSE <<>>

\* status.get("buttons", {}).get(side, {}).get(name, False)
ButtonGet(status, side, name) ==
  LET buttons == Get(status, "buttons", PyDict(<<>>))
  IN  IF buttons.outcome # "ok" THEN buttons
      ELSE LET held == Get(buttons.value, side, PyDict(<<>>))
           IN  IF held.outcome # "ok" THEN held
               ELSE Get(held.value, name, False)

\* the structures tried for the stick, in order, with the names tried for
\* each axis; then the flat keys of each side
StickShapes ==
  <<[top |-> "analogs", xs |-> <<"x", "stick_x", "horizontal">>,
     ys |-> <<"y", "stick_y", "vertical">>],
    [top |-> "analog-sticks", xs |-> <<"x", "horizontal", "stick_x">>,
     ys |-> <<"y", "vertical", "stick_y">>],
    [top |-> "stick", xs |-> <<"x", "horizontal">>,
     ys |-> <<"y", "vertical">>]>>
FlatKeys ==
  [right |-> <<"right_stick_x", "right_stick_y">>,
   left |-> <<"left_stick_x", "left_stick_y">>]

\* analog_x_raw and analog_y_raw as read from the dict status, from the
\* i-th structure on
RECURSIVE Sticks(_, _, _)
Sticks(status, side, i) ==
  IF i > Len(StickShapes)
  THEN IF \E j \in 1..2 : FlatKeys[side][j] \in DOMAIN status.v
       THEN Ok(<<FirstOf(status, <<FlatKeys[side][1]>>, Float(0)),
                 FirstOf(status, <<FlatKeys[side][2]>>, Float(0))>>)
       ELSE Ok(<<Float(0), Float(0)>>)
  ELSE IF StickShapes[i].top \notin DOMAIN status.v
  THEN Sticks(status, side, i + 1)
  ELSE LET has == In(side, status.v[StickShapes[i].top])
       IN  IF has.outcome # "ok" THEN has
           ELSE IF ~has.value THEN Sticks(status, side, i + 1)
           ELSE LET stick == Subscript(status.v[StickShapes[i].top], side)
                IN  IF stick.outcome # "ok" THEN stick
                    ELSE IF stick.value.t # "dict"
                    THEN Raise("AttributeError")
                    ELSE Ok(<<FirstOf(stick.value, StickShapes[i].xs,
                                      Float(0)),
                              FirstOf(stick.value, StickShapes[i].ys,
                                      Float(0))>>)

\* the [AXIS DEBUG] lines of the Plus branch, written when the logger is
\* enabled for INFO: status[k].keys() raises on what is not a dict
AxisDebug(status) ==
  IF \E i \in DOMAIN StickShapes :
       /\ StickShapes[i].top \in DOMAIN status.v
       /\ status.v[StickShapes[i].top].t # "dict"
  THEN "AttributeError" ELSE "none"

\* the steering from x alone, taking the sample of the offset axis in
\* either mode
SteeringSamplingInDirectMode(h, x, y, rotated) ==
  IF ~IsFloat(x)
  THEN [exc |-> "TypeError", left |-> 0, right |-> 0, raw |-> x, h |-> h]
  ELSE [exc |-> "none",
        left |-> IF _apply_deadzone(x.v, JOYCON_DEADZONE) < 0 THEN 1 ELSE 0,
        right |-> IF _apply_deadzone(x.v, JOYCON_DEADZONE) > 0 THEN 1 ELSE 0,
        raw |-> x,
        h |-> IF IsFloat(y) /\ y.v # 0
              THEN [h EXCEPT !.samples = Append(h.samples, y)]
              ELSE h]

\* the steering that takes the offset axis in rotated mode whatever x is
SteeringByOffsetAxis(h, x, y, rotated) ==
  IF rotated
  THEN LET updated == _update_center_calibration(h, y, max_samples)
       IN  IF updated.exc # "none"
           THEN [exc |-> updated.exc, left |-> 0, right |-> 0, raw |-> x,
                 h |-> updated.h]
           ELSE IF ~IsFloat(x)
           THEN [exc |-> "TypeError", left |-> 0, right |-> 0, raw |-> x,
                 h |-> updated.h]
           ELSE [exc |-> "none",
                 left |-> _get_steering_from_offset_axis(
                            y, updated.h.y_center, JOYCON_DEADZONE)[1],
                 right |-> _get_steering_from_offset_axis(
                             y, updated.h.y_center, JOYCON_DEADZONE)[2],
                 raw |-> y, h |-> updated.h]
  ELSE IF ~IsFloat(x)
  THEN [exc |-> "TypeError", left |-> 0, right |-> 0, raw |-> x, h |-> h]
  ELSE [exc |-> "none",
        left |-> IF _apply_deadzone(x.v, JOYCON_DEADZONE) < 0 THEN 1 ELSE 0,
        right |-> IF _apply_deadzone(x.v, JOYCON_DEADZONE) > 0 THEN 1 ELSE 0,
        raw |-> x, h |-> h]

\* the steering of one poll from the normalized x and y: the flags, the
\* axis value logged, the calibration state left behind
Steering(h, x, y, rotated) ==
  IF rotated
  THEN LET updated == _update_center_calibration(h, y, max_samples)
       IN  IF updated.exc # "none"
           THEN [exc |-> updated.exc, left |-> 0, right |-> 0, raw |-> x,
                 h |-> updated.h]
           ELSE IF ~IsFloat(x)
           THEN [exc |-> "TypeError", left |-> 0, right |-> 0, raw |-> x,
                 h |-> updated.h]
           ELSE IF x.v < 0
           THEN [exc |-> "none",
                 left |-> IF _apply_deadzone(x.v, JOYCON_DEADZONE) < 0
                          THEN 1 ELSE 0,
                 right |-> IF _apply_deadzone(x.v, JOYCON_DEADZONE) > 0
                           THEN 1 ELSE 0,
                 raw |-> x, h |-> updated.h]
           ELSE [exc |-> "none",
                 left |-> _get_steering_from_offset_axis(
                            y, updated.h.y_center, JOYCON_DEADZONE)[1],
                 right |-> _get_steering_from_offset_axis(
                             y, updated.h.y_center, JOYCON_DEADZONE)[2],
                 raw |-> y, h |-> updated.h]
  ELSE IF ~IsFloat(x)
  THEN [exc |-> "TypeError", left |-> 0, right |-> 0, raw |-> x, h |-> h]
  ELSE [exc |-> "none",
        left |-> IF _apply_deadzone(x.v, JOYCON_DEADZONE) < 0 THEN 1 ELSE 0,
        right |-> IF _apply_deadzone(x.v, JOYCON_DEADZONE) > 0 THEN 1 ELSE 0,
        raw |-> x, h |-> h]

\* the steering log lines: the message is formatted, with X, Y and the
\* axis used as .3f, when a flag is set or a value exceeds 0.01
SteeringLog(left, right, raw, y) ==
  IF left = 1 \/ right = 1 THEN Format3f(y)
  ELSE IF Abs(raw.v) > LogThreshold THEN Format3f(y)
  ELSE IF ~IsFloat(y) THEN "TypeError"
  ELSE "ok"

\* the try block of parse_joycon_status for a device_type of SideOf: exc
\* is the exception it left with, "none" when it ran to its end
Poll(h, status, device_type, speed, rotated, info) ==
  LET side == SideOf[device_type]
      sr == ButtonGet(status, side, "sr")
      sl == ButtonGet(status, side, "sl")
      sticks == Sticks(status, side, 1)
      x == Normalize(sticks.value[1])
      y == Normalize(sticks.value[2])
      steer == Steering(h, x, y, rotated)
      Left(e, hh) == [exc |-> e, value |-> <<>>, h |-> hh]
  IN  IF sr.outcome # "ok" THEN Left(sr.outcome, h)
      ELSE IF sl.outcome # "ok" THEN Left(sl.outcome, h)
      ELSE IF sticks.outcome # "ok" THEN Left(sticks.outcome, h)
      ELSE IF device_type = "Plus" /\ info /\ AxisDebug(status) # "none"
      THEN Left(AxisDebug(status), h)
      ELSE IF steer.exc # "none" THEN Left(steer.exc, steer.h)
      ELSE IF SteeringLog(steer.left, steer.right, steer.raw, y) # "ok"
      THEN Left(SteeringLog(steer.left, steer.right, steer.raw, y), steer.h)
      ELSE [exc |-> "none",
            value |-> <<IF Truth(sr.value) THEN 1 ELSE 0,
                        IF Truth(sl.value) THEN 1 ELSE 0,
                        steer.left, steer.right, speed>>,
            h |-> steer.h]

\* what a poll gives its caller: the tuple returned or the exception
\* raised, the KeyError or TypeError caught on the way, and the calibration
\* state left behind
Polled(outcome, value, caught, h) ==
  [outcome |-> outcome, value |-> value, caught |-> caught, h |-> h]

\* handler.parse_joycon_status(status, device_type, current_speed, rotated)
\* on the calibration state h; info says the logger is enabled for INFO
parse_joycon_status(h, status, device_type, current_speed, rotated, info) ==
  LET override == _get_speed_from_buttons(status, device_type)
      speed == IF override = <<>> THEN current_speed ELSE override[1]
  IN  IF device_type \notin DOMAIN SideOf
      THEN Polled("ok", <<0, 0, 0, 0, speed>>, "none", h)
      ELSE LET left == Poll(h, status, device_type, speed, rotated, info)
           IN  IF left.exc = "none"
               THEN Polled("ok", left.value, "none", left.h)
               ELSE IF left.exc \in {"KeyError", "TypeError"}
               THEN Polled("ok", <<0, 0, 0, 0, current_speed>>, left.exc,
                           left.h)
               ELSE Polled(left.exc, <<>>, "none", left.h)

\* the except clause of get_joycon_command around the retrieval: the
\* message, of whatever length, or IDLE_MESSAGE when the retrieval raised
MessageOrIdle(message) ==
  IF message.outcome = "ok" THEN message.value ELSE IDLE_MESSAGE

\* get_joycon_command from the parsed poll on: IDLE_MESSAGE when the poll
\* raised, else the message retrieved for the parsed control state
CommandOf(table, parsed) ==
  IF parsed.outcome # "ok"
  THEN [value |-> IDLE_MESSAGE, state |-> <<>>, h |-> parsed.h]
  ELSE [value |-> MessageOrIdle(retrieve_precomputed_message(
                    table, parsed.value[1], parsed.value[2], parsed.value[3],
                    parsed.value[4], parsed.value[5])),
        state |-> parsed.value, h |-> parsed.h]

\* car.get_joycon_command(status, device_type, current_speed = speed,
\* rotated) on the calibration state h and the table command_list
get_joycon_command(h, table, status, device_type, speed, rotated, info) ==
  CommandOf(table, parse_joycon_status(h, status, device_type, speed,
                                       rotated, info))

(***************************************************************************)
(* Inputs of the model                                                     *)
(***************************************************************************)
\* lengths 0..MaxLen of the byte strings handed to the cipher and the link
MaxLen == 17

ZeroBytes(n) == [i \in 1..n |-> 0]

\* b"1234567890123456", bytes(range(16)), sixteen 0xFF (tests/test_encryption.py)
BlockInputs ==
  {ZeroBytes(n) : n \in 0..MaxLen}
  \cup {<<49, 50, 51, 52, 53, 54, 55, 56, 57, 48, 49, 50, 51, 52, 53, 54>>,
        <<0, 1, 2, 3, 4, 5, 6, 7, 8, 9, 10, 11, 12, 13, 14, 15>>,
        [i \in 1..16 |-> 255],
        IDLE_MESSAGE}

\* AES_KEY, another 16-byte key, b"short_key", and keys of 0 and 17 bytes
KeyInputs ==
  {AES_KEY,
   <<0, 1, 2, 3, 4, 5, 6, 7, 8, 9, 10, 11, 12, 13, 14, 15>>,
   <<115, 104, 111, 114, 116, 95, 107, 101, 121>>,
   ZeroBytes(0), ZeroBytes(17)}

\* the four flags of a call: every valid combination, and each flag in turn
\* set to 2 or to -1
FlagInputs ==
  {<<f, b, l, r>> : f \in {0, 1}, b \in {0, 1}, l \in {0, 1}, r \in {0, 1}}
  \cup {[<<0, 0, 0, 0>> EXCEPT ![i] = v] : i \in 1..4, v \in {2, -1}}

\* the arguments of a direct _create_message call: every flag combination,
\* valid or not, at the default speed, and two valid combinations at the
\* ends of the byte range and just outside it
CreateInputs ==
  {<<fl[1], fl[2], fl[3], fl[4], DEFAULT_SPEED>> : fl \in FlagInputs}
  \cup {<<fl[1], fl[2], fl[3], fl[4], s>> :
          fl \in {<<1, 0, 0, 0>>, <<0, 1, 1, 1>>}, s \in {-1, 0, 255, 256}}

\* the control states asked of the command table: every flag combination at
\* the lowest tier, no flag and each flag alone at the default speed, forward
\* alone at the other tiers and at the ends of the byte range, and malformed
\* requests, the last of which has the key "100022" of forward at 0x16
Requests ==
  {<<f, b, l, r, 22>> : f \in {0, 1}, b \in {0, 1}, l \in {0, 1}, r \in {0, 1}}
  \cup {<<0, 0, 0, 0, DEFAULT_SPEED>>, <<1, 0, 0, 0, DEFAULT_SPEED>>,
        <<0, 1, 0, 0, DEFAULT_SPEED>>, <<0, 0, 1, 0, DEFAULT_SPEED>>,
        <<0, 0, 0, 1, DEFAULT_SPEED>>}
  \cup {<<1, 0, 0, 0, s>> : s \in {50, 72, 100, 0, 255, 256, -1}}
  \cup {<<2, 0, 0, 0, 22>>, <<0, 0, 0, 2, DEFAULT_SPEED>>,
        <<10, 0, 0, 2, 2>>}

\* "TEST_CAR" and "QCAR-0000001": the document the tests' fixture loads
TestCarName == <<84, 69, 83, 84, 95, 67, 65, 82>>
TestCarId == <<81, 67, 65, 82, 45, 48, 48, 48, 48, 48, 48, 49>>
FixtureFile == TestCarName :> TestCarId

\* a hand-edited table: under the keys of four control states at the default
\* speed, the encoding of another message, "", "A" and "AAAA"; under the key
\* of backward at the lowest tier, "AAAA" again; under the key of no flag at
\* the default speed, "AA"
EditedFile ==
  (Key(1, 0, 0, 0, DEFAULT_SPEED) :> b64encode(IDLE_MESSAGE))
  @@ (Key(0, 1, 0, 0, DEFAULT_SPEED) :> <<>>)
  @@ (Key(0, 0, 1, 0, DEFAULT_SPEED) :> <<65>>)
  @@ (Key(0, 0, 0, 1, DEFAULT_SPEED) :> <<65, 65, 65, 65>>)
  @@ (Key(0, 1, 0, 0, 22) :> <<65, 65, 65, 65>>)
  @@ (Key(0, 0, 0, 0, DEFAULT_SPEED) :> <<65, 65>>)

InitialFiles == {Absent, Corrupt, Document(FixtureFile), Document(EditedFile)}

\* the names asked of connect_by_name: "TEST_CAR", "CAR2" and
\* "NONEXISTENT_CAR" (tests/test_shell_motorsport.py)
Car2Name == <<67, 65, 82, 50>>
NonexistentCarName ==
  <<78, 79, 78, 69, 88, 73, 83, 84, 69, 78, 84, 95, 67, 65, 82>>
CarNames == {TestCarName, Car2Name, NonexistentCarName}

\* the vehicle list of the tests, edited by hand: "CAR2" is there with ""
\* for its device ID
EditedVehicles == (TestCarName :> TestCarId) @@ (Car2Name :> <<>>)
VehicleFiles == {Absent, Document(EditedVehicles)}

\* the fields of the buttons of each device_type: sr, sl and the four
\* speed-tier buttons
ButtonNames(device_type) ==
  {"sr", "sl"} \cup {SpeedButtons[device_type][i] : i \in 1..4}

\* a snapshot of the shape of the tests: the buttons of the side, those of
\* pressed held down, and its stick
Snapshot(device_type, pressed, stick) ==
  PyDict(("buttons" :>
            PyDict(SideOf[device_type] :>
                     PyDict([b \in ButtonNames(device_type) |->
                               PyBool(b \in pressed)])))
         @@ ("analogs" :> PyDict(SideOf[device_type] :> stick)))

\* axis values, in thousandths: the ends, the deadzone and its neighbours
AxisInputs == {-500, -101, -100, -99, 0, 99, 100, 101, 500}

\* every combination of the speed-tier buttons, the stick at rest
TierSnapshots(device_type) ==
  {Snapshot(device_type, pressed, PyDict("x" :> Float(0))) :
     pressed \in SUBSET {SpeedButtons[device_type][i] : i \in 1..4}}

\* the stick along x, alone and with sr or sl held
SteerSnapshots(device_type) ==
  {Snapshot(device_type, pressed, PyDict("x" :> Float(v))) :
     pressed \in {{}, {"sr"}, {"sl"}}, v \in AxisInputs}

\* the snapshots of tests/test_joycon_handler.py: sr held and the stick
\* reporting y alone, 0.5 or -0.5; sr and sl alone and y = 0.05
TestSnapshots(device_type) ==
  {Snapshot(device_type, {"sr"}, PyDict("y" :> Float(v))) : v \in {500, -500}}
  \cup {PyDict(("buttons" :>
                  PyDict(SideOf[device_type] :>
                           PyDict(("sr" :> False) @@ ("sl" :> False))))
               @@ ("analogs" :>
                     PyDict(SideOf[device_type] :> PyDict("y" :> Float(50)))))}

\* snapshots that lack speed-tier button fields: the max button alone and
\* pressed; the low button released and the max pressed; the low button
\* alone and pressed; sr and the medium button pressed, the stick at 0.5
PartialSnapshots(device_type) ==
  LET side == SideOf[device_type]
      tier == SpeedButtons[device_type]
      Held(buttons) == PyDict("buttons" :> PyDict(side :> PyDict(buttons)))
  IN  {Held(tier[4] :> True),
       Held((tier[1] :> False) @@ (tier[4] :> True)),
       Held(tier[1] :> True),
       PyDict(("buttons" :>
                 PyDict(side :> PyDict(("sr" :> True) @@ (tier[2] :> True))))
              @@ ("analogs" :> PyDict(side :> PyDict("x" :> Float(500)))))}

\* the stick in the other structures and under the other names, as floats
\* and as raw integers
ShapeSnapshots(device_type) ==
  LET side == SideOf[device_type]
  IN  {PyDict("analog-sticks" :>
                PyDict(side :> PyDict("horizontal" :> Float(500)))),
       PyDict("stick" :> PyDict(side :> PyDict("x" :> Float(-500)))),
       PyDict("analogs" :>
                PyDict(side :> PyDict(("stick_x" :> PyInt(3277))
                                      @@ ("stick_y" :> PyInt(-3277))))),
       PyDict(FlatKeys[side][1] :> PyInt(3276)),
       PyDict(FlatKeys[side][2] :> Float(500)),
       PyDict("analogs" :> PyDict(side :> PyDict("x" :> True)))}

\* malformed snapshots: None, {}, and None, a str, a list or a str value
\* where a dict or a number belongs
MalformedSnapshots(device_type) ==
  LET side == SideOf[device_type]
      text == PyStr(<<97, 98, 99>>)
  IN  {None,
       PyDict(<<>>),
       PyDict("buttons" :> None),
       PyDict("buttons" :> PyDict(side :> None)),
       PyDict("buttons" :> PyList(<<>>)),
       PyDict("analogs" :> None),
       PyDict("analogs" :> PyStr(Chars(side))),
       PyDict("analogs" :> PyList(<<>>)),
       PyDict("analogs" :> PyList(<<PyStr(Chars(side))>>)),
       PyDict("analogs" :> PyDict(side :> None)),
       PyDict("analogs" :> PyDict(side :> PyDict("x" :> text))),
       PyDict("analogs" :> PyDict(side :> PyDict("x" :> None))),
       PyDict("analogs" :> PyDict(side :> PyDict("y" :> text))),
       PyDict("analogs" :> PyDict(side :> PyDict("y" :> None))),
       Snapshot(device_type, {"a", "left"},
                PyDict(("x" :> Float(500)) @@ ("y" :> text))),
       Snapshot(device_type, {"a", "left"},
                PyDict(("x" :> Float(500)) @@ ("y" :> None)))}

\* the snapshots polled in direct mode: all of the above for the side of
\* device_type, and the tests' snapshots of the other side; for a
\* device_type that has no side, the tests' snapshots
Snapshots(device_type) ==
  IF device_type \in DOMAIN SideOf
  THEN TierSnapshots(device_type) \cup SteerSnapshots(device_type)
       \cup ShapeSnapshots(device_type) \cup MalformedSnapshots(device_type)
       \cup PartialSnapshots(device_type)
       \cup TestSnapshots("Plus") \cup TestSnapshots("Minus")
  ELSE TestSnapshots("Plus") \cup {None}

\* the snapshots polled in rotated mode: the stick along x and y, and
\* snapshots without a stick or with None on an axis
RotatedSnapshots(device_type) ==
  IF device_type \in DOMAIN SideOf
  THEN {Snapshot(device_type, {}, PyDict(("x" :> Float(v)) @@ ("y" :> Float(w)))) :
          v \in {-500, -99, 0}, w \in {0, 57, 157}}
       \cup {PyDict(<<>>),
             PyDict("analogs" :>
                      PyDict(SideOf[device_type] :> PyDict("y" :> None))),
             PyDict("analogs" :>
                      PyDict(SideOf[device_type] :>
                               PyDict(("x" :> None) @@ ("y" :> Float(57)))))}
  ELSE {PyDict(<<>>)}

\* the snapshots handed to get_joycon_command: sr, nothing, or sl and the
\* low tier held with the stick at 0.5, at rest or at -0.5; the stick at
\* y = 0.157; {} and a snapshot whose buttons are None
CommandSnapshots(device_type) ==
  {Snapshot(device_type, {"sr"}, PyDict("x" :> Float(500))),
   Snapshot(device_type, {}, PyDict("x" :> Float(500))),
   Snapshot(device_type, {"sr"}, PyDict("x" :> Float(0))),
   Snapshot(device_type, {}, PyDict("x" :> Float(-500))),
   Snapshot(device_type, {"sl", SpeedButtons[device_type][1]},
            PyDict("x" :> Float(0))),
   Snapshot(device_type, {"sr"},
            PyDict(("x" :> Float(0)) @@ ("y" :> Float(157)))),
   PyDict(<<>>),
   PyDict("buttons" :> None)}

\* the iterations of precompute_messages after which a concurrent
\* retrieval looks at the table
ObservedAt == {0, 1, 2, 33, 63, 64}

\* "Plus", "Minus" and a device_type that is neither
DeviceTypes == {"Plus", "Minus", "Pro"}

\* current_speed: the default and the lowest tier
CurrentSpeeds == {DEFAULT_SPEED, 22}

\* the most samples the model lets the calibration collect
MaxSamples == 2

\* the y value, in thousandths, of the next rotated poll of a stick swept
\* over 0.020 .. 0.090, upwards or downwards, or held at 0.057: the first
\* sample decides which, the count of samples how far the sweep has come
SweepInputs(samples) ==
  IF samples = <<>> THEN {20, 90, 57, 157, -43}
  ELSE IF samples[1].v = Milli(20) THEN {20 + (Len(samples) % 71)}
  ELSE IF samples[1].v = Milli(90) THEN {90 - (Len(samples) % 71)}
  ELSE {57}

\* the y values, in thousandths, polled once max_samples samples are in:
\* none, below and above every sample of the sweeps, and their centers
LaterInputs == {0, 5, 55, 57, 500, -45, -44, 154, 155}

\* the most samples the model lets come in beyond max_samples
MaxExtra == 2

(***************************************************************************)
(* State                                                                   *)
(***************************************************************************)
VARIABLES
  key,            \* MessageEncryptor.key of the encryptor in use
  command_list,   \* ShellMotorsportCar.command_list
  commands_file,  \* the file at ShellMotorsportCar.commands_file
  _is_connected,  \* BLEClient._is_connected
  client,         \* BLEClient.client: None or a BleakClient
  device,         \* BLEClient.device: None or a BLEDevice
  pending,        \* the timed loop of move_forward / move_backward in flight
  written,        \* the payloads the last operation handed to write_gatt_char
  vehicle_list,   \* ShellMotorsportCar.vehicle_list
  vehicle_list_file,   \* the file at ShellMotorsportCar.vehicle_list_file
  _y_center,      \* JoyConHandler._y_center
  _y_min,         \* JoyConHandler._y_min
  _y_max,         \* JoyConHandler._y_max
  _center_samples,     \* JoyConHandler._center_samples
  _center_calibrated,  \* JoyConHandler._center_calibrated
  ret             \* the last call: operation, arguments and result

registry == <<vehicle_list, vehicle_list_file>>
car == <<key, command_list, commands_file, vehicle_list, vehicle_list_file>>
link == <<_is_connected, client, device, pending, written>>
handler == <<_y_center, _y_min, _y_max, _center_samples, _center_calibrated>>
vars == <<key, command_list, commands_file, _is_connected, client, device,
          pending, written, vehicle_list, vehicle_list_file, _y_center, _y_min, _y_max,
          _center_samples, _center_calibrated, ret>>

\* no encryptor has been constructed
NoObject == <<>>

\* None, a BleakClient for an address, a BLEDevice
NoClient == [kind |-> "None", address |-> "", is_connected |-> FALSE]
BleakClient(address, up) ==
  [kind |-> "BleakClient", address |-> address, is_connected |-> up]
NoDevice == [kind |-> "None", name |-> <<>>, address |-> ""]
BLEDevice(name, address) ==
  [kind |-> "BLEDevice", name |-> name, address |-> address]

\* no timed loop is in flight
NoLoop == [op |-> "none", message |-> <<>>, duration |-> 0]

\* is_connected going by the flag alone
is_connected_by_flag == _is_connected

\* BLEClient.is_connected, which ShellMotorsportCar.is_connected() returns
is_connected ==
  _is_connected /\ client # NoClient /\ client.is_connected

NoCall == [op |-> "none", args |-> <<>>, outcome |-> "ok", value |-> <<>>,
           plain |-> <<>>, connected |-> FALSE]

\* the record of a call: res is Ok(..) or Raise(..), plain the block the
\* call handed to the cipher (<<>> when it handed none), connected what
\* is_connected() was when the call was made
Call(op, args, res, plain) ==
  [op |-> op, args |-> args, outcome |-> res.outcome, value |-> res.value,
   plain |-> plain, connected |-> is_connected]

\* JoyConHandler(): the calibration state of NewHandler
InitHandler ==
  /\ _y_center = NewHandler.y_center
  /\ _y_min = NewHandler.y_min
  /\ _y_max = NewHandler.y_max
  /\ _center_samples = NewHandler.samples
  /\ _center_calibrated = NewHandler.calibrated

\* BLEClient(): no client, no device, not connected
InitLink ==
  /\ _is_connected = FALSE
  /\ client = NoClient
  /\ device = NoDevice
  /\ pending = NoLoop
  /\ written = <<>>

(***************************************************************************)
(* The encryptor and the frame codec, called directly                      *)
(***************************************************************************)
InitCodec ==
  /\ key = NoObject
  /\ command_list = NoTable
  /\ commands_file = Absent
  /\ vehicle_list_file = Absent
  /\ vehicle_list = NoVehicles
  /\ InitLink
  /\ InitHandler
  /\ ret = NoCall

\* MessageEncryptor(k)
Construct(k) ==
  /\ key = NoObject
  /\ LET res == MessageEncryptor(k)
     IN  /\ key' = IF res.outcome = "ok" THEN res.value ELSE NoObject
         /\ ret' = Call("MessageEncryptor", k, res, <<>>)
  /\ UNCHANGED <<registry, command_list, commands_file, link, handler>>

\* encryptor.encrypt(message)
EncryptCall(message) ==
  /\ key # NoObject
  /\ LET res == encrypt(key, message)
     IN  ret' = Call("encrypt", message, res,
                     IF res.outcome = "ok" THEN message ELSE <<>>)
  /\ UNCHANGED <<car, link, handler>>

\* encryptor.decrypt(c): c is an input or the result of the encryption
\* before; plain then carries the plaintext of that encryption along
DecryptCall(c) ==
  /\ key # NoObject
  /\ ret' = Call("decrypt", c, decrypt(key, c),
                 IF ret.op \in {"encrypt", "_create_message"}
                    /\ ret.outcome = "ok" /\ c = ret.value
                 THEN ret.plain ELSE <<>>)
  /\ UNCHANGED <<car, link, handler>>

\* car._create_message(forward, backward, left, right, speed), the car's
\* encryptor being the one built from AES_KEY
CreateMessageCall(forward, backward, left, right, speed) ==
  /\ key = AES_KEY
  /\ LET res == _create_message(forward, backward, left, right, speed)
     IN  ret' = Call("_create_message",
                     <<forward, backward, left, right, speed>>, res,
                     IF res.outcome = "ok"
                     THEN Frame(forward, backward, left, right, speed)
                     ELSE <<>>)
  /\ UNCHANGED <<car, link, handler>>

NextCodec ==
  \/ \E k \in KeyInputs : Construct(k)
  \/ \E m \in BlockInputs : EncryptCall(m)
  \/ \E c \in BlockInputs \cup (IF ret.op \in {"encrypt", "_create_message"}
                                 THEN {ret.value} ELSE {}) : DecryptCall(c)
  \/ \E a \in CreateInputs : CreateMessageCall(a[1], a[2], a[3], a[4], a[5])

SpecCodec == InitCodec /\ [][NextCodec]_vars

(***************************************************************************)
(* The command table of a car                                              *)
(***************************************************************************)
\* ShellMotorsportCar(): the encryptor is built from AES_KEY and the table
\* is loaded from the commands file
InitCache ==
  /\ key = AES_KEY
  /\ commands_file \in InitialFiles
  /\ command_list = _load_commands(commands_file)
  /\ vehicle_list_file = Absent
  /\ vehicle_list = _load_vehicle_list(vehicle_list_file)
  /\ InitLink
  /\ InitHandler
  /\ ret = NoCall

\* car.retrieve_precomputed_message(forward, backward, left, right, speed)
Retrieve(forward, backward, left, right, speed) ==
  /\ ret' = Call("retrieve_precomputed_message",
                 <<forward, backward, left, right, speed>>,
                 retrieve_precomputed_message(command_list, forward, backward,
                                              left, right, speed), <<>>)
  /\ UNCHANGED <<car, link, handler>>

\* car.precompute_messages(), _save_commands writing the file
Precompute ==
  /\ command_list' = PrecomputeLoop(command_list, 64)
  /\ \E saved \in {_save_commands(command_list', commands_file, "none")} :
       /\ commands_file' = saved.file
       /\ ret' = Call("precompute_messages", <<>>, saved.result, <<>>)
  /\ UNCHANGED <<registry, key, link, handler>>

\* car.precompute_messages(), _save_commands failing
PrecomputeSaveFails ==
  /\ command_list' = PrecomputeLoop(command_list, 64)
  /\ \E fault \in {"open", "dump"} :
       \E saved \in {_save_commands(command_list', commands_file, fault)} :
         /\ commands_file' = saved.file
         /\ ret' = Call("precompute_messages", <<>>, saved.result, <<>>)
  /\ UNCHANGED <<registry, key, link, handler>>

\* a new ShellMotorsportCar on the same commands file; fails says reading
\* the file raises OSError, which _load_commands logs
Restart(fails) ==
  /\ command_list' = IF fails THEN NoTable ELSE _load_commands(commands_file)
  /\ ret' = Call("__init__", <<fails>>, Ok(<<>>), <<>>)
  /\ UNCHANGED <<registry, key, commands_file, link, handler>>

NextCache ==
  \/ \E q \in Requests : Retrieve(q[1], q[2], q[3], q[4], q[5])
  \/ Precompute
  \/ PrecomputeSaveFails
  \/ \E fails \in BOOLEAN : Restart(fails)

SpecCache == InitCache /\ [][NextCache]_vars

(***************************************************************************)
(* ble_client.py and the send operations of a car                          *)
(***************************************************************************)
\* "QCAR", the default device_name_pattern of scan_for_device
QCAR == <<81, 67, 65, 82>>

\* the test of scan_for_device on one discovered device
Matches(dev, device_id, device_name_pattern) ==
  IF device_id # <<>> THEN Contains(device_id, dev.name)
  ELSE Contains(device_name_pattern, dev.name)

\* MAX_SCAN_RETRIES of config.py
MAX_SCAN_RETRIES == 5

\* what one await of BleakScanner.discover() under wait_for comes to: the
\* timeout, another exception, or the list of the devices discovered
Timeout == [kind |-> "timeout", devices |-> <<>>]
Failure == [kind |-> "error", devices |-> <<>>]
Discovered(devices) == [kind |-> "devices", devices |-> devices]

\* what a scan gives its caller, the awaits of discover() and of sleep() it
\* made
Scanned(res, attempts, sleeps) ==
  [outcome |-> res.outcome, value |-> res.value, attempts |-> attempts,
   sleeps |-> sleeps]

\* the for loop of scan_for_device from the iteration attempt (0-based) on,
\* discoveries[i] being what the i-th discover() comes to: the first device
\* matching is returned; an attempt that matches nothing or times out
\* sleeps and goes on unless it is the last, which raises TimeoutError; any
\* other exception of discover() leaves the loop at once
RECURSIVE ScanLoop(_, _, _, _, _)
ScanLoop(device_id, device_name_pattern, discoveries, attempt, sleeps) ==
  IF attempt >= MAX_SCAN_RETRIES THEN Scanned(Ok(NoDevice), attempt, sleeps)
  ELSE LET found == discoveries[attempt + 1]
           match == {j \in DOMAIN found.devices :
                       Matches(found.devices[j], device_id,
                               device_name_pattern)}
       IN  IF found.kind = "error"
           THEN Scanned(Raise("BleakError"), attempt + 1, sleeps)
           ELSE IF found.kind = "devices" /\ match # {}
           THEN Scanned(Ok(found.devices[CHOOSE j \in match :
                                           \A k \in match : j <= k]),
                        attempt + 1, sleeps)
           ELSE IF attempt < MAX_SCAN_RETRIES - 1
           THEN ScanLoop(device_id, device_name_pattern, discoveries,
                         attempt + 1, sleeps + 1)
           ELSE Scanned(Raise("TimeoutError"), attempt + 1, sleeps)

\* the scan returning None when its last attempt finds nothing
scan_for_device_returning_none(device_id, device_name_pattern, discoveries) ==
  LET res == ScanLoop(device_id, device_name_pattern, discoveries, 0, 0)
  IN  IF res.outcome = "TimeoutError"
      THEN Scanned(Ok(NoDevice), res.attempts, res.sleeps)
      ELSE res

\* BLEClient.scan_for_device(device_id, device_name_pattern); device_id is
\* <<>> for None
scan_for_device(device_id, device_name_pattern, discoveries) ==
  ScanLoop(device_id, device_name_pattern, discoveries, 0, 0)

\* car.find_car(device_id)
find_car(device_id, discoveries) ==
  LET res == scan_for_device(device_id, QCAR, discoveries)
  IN  IF res.outcome = "ok" /\ res.value = NoDevice
      THEN Scanned(Raise("TimeoutError"), res.attempts, res.sleeps)
      ELSE res

\* _save_vehicle_list() of table over file: the document is written; or
\* open() fails and leaves the file; or json.dump fails on the file open()
\* has truncated; a failure is logged and raised again
_save_vehicle_list(table, file, fault) ==
  IF fault = "open" THEN [file |-> file, result |-> Raise("OSError")]
  ELSE IF fault = "dump" THEN [file |-> Corrupt, result |-> Raise("OSError")]
  ELSE [file |-> Document(table), result |-> Ok(<<>>)]

\* find_and_name_car returning the device without saving the vehicle list
find_and_name_car_unsaved(table, file, new_name, discoveries, fault) ==
  LET res == scan_for_device(<<>>, QCAR, discoveries)
  IN  IF res.outcome # "ok"
      THEN [vehicles |-> table, file |-> file, result |-> res]
      ELSE IF res.value = NoDevice
      THEN [vehicles |-> table, file |-> file,
            result |-> Scanned(Raise("TimeoutError"), res.attempts,
                               res.sleeps)]
      ELSE [vehicles |-> (new_name :> res.value.name) @@ table,
            file |-> file, result |-> res]

\* car.find_and_name_car(new_name) on the vehicle list table and its file:
\* the list and the file it leaves, and what its caller gets
find_and_name_car(table, file, new_name, discoveries, fault) ==
  LET res == scan_for_device(<<>>, QCAR, discoveries)
  IN  IF res.outcome # "ok"
      THEN [vehicles |-> table, file |-> file, result |-> res]
      ELSE IF res.value = NoDevice
      THEN [vehicles |-> table, file |-> file,
            result |-> Scanned(Raise("TimeoutError"), res.attempts,
                               res.sleeps)]
      ELSE LET named == (new_name :> res.value.name) @@ table
               saved == _save_vehicle_list(named, file, fault)
           IN  [vehicles |-> named, file |-> saved.file,
                result |-> IF saved.result.outcome = "ok" THEN res
                           ELSE Scanned(saved.result, res.attempts,
                                        res.sleeps)]

\* the result of a call on the link: sent holds the payloads that reached
\* write_gatt_char
Sent(outcome, payloads) == [outcome |-> outcome, value |-> payloads]

\* write_characteristic handing data to write_gatt_char twice
write_characteristic_twice(data, fails) ==
  IF ~is_connected THEN Sent("ConnectionError", <<>>)
  ELSE IF Len(data) # 16 THEN Sent("ValueError", <<>>)
  ELSE IF fails THEN Sent("BleakError", <<data>>)
  ELSE Sent("ok", <<data, data>>)

\* write_characteristic trying write_gatt_char again when it raises
write_characteristic_retried(data, fails) ==
  IF ~is_connected THEN Sent("ConnectionError", <<>>)
  ELSE IF Len(data) # 16 THEN Sent("ValueError", <<>>)
  ELSE IF fails THEN Sent("ok", <<data, data>>)
  ELSE Sent("ok", <<data>>)

\* BLEClient.write_characteristic(data); fails says write_gatt_char raises
write_characteristic(data, fails) ==
  IF ~is_connected THEN Sent("ConnectionError", <<>>)
  ELSE IF Len(data) # 16 THEN Sent("ValueError", <<>>)
  ELSE IF fails THEN Sent("BleakError", <<data>>)
  ELSE Sent("ok", <<data>>)

\* ShellMotorsportCar.move_command(message)
move_command(message, fails) ==
  IF ~is_connected THEN Sent("ConnectionError", <<>>)
  ELSE IF Len(message) # 16 THEN Sent("ValueError", <<>>)
  ELSE write_characteristic(message, fails)

\* stop sending the table's message for the state with no flag set
stop_from_table(fails) ==
  IF ~is_connected THEN Sent("ConnectionError", <<>>)
  ELSE write_characteristic(
         retrieve_precomputed_message(command_list, 0, 0, 0, 0,
                                      DEFAULT_SPEED).value, fails)

\* ShellMotorsportCar.stop()
stop(fails) ==
  IF ~is_connected THEN Sent("ConnectionError", <<>>)
  ELSE write_characteristic(IDLE_MESSAGE, fails)

\* if duration: of move_forward and move_backward; duration is <<>> for
\* None and <<d>> for the number d
Truthy(duration) == duration # <<>> /\ duration[1] # 0

\* the most writes of one timed loop the model follows
MaxWrites == 2

\* "QCAR-0000044", the device of the docstrings, beside the tests' device
OtherCarId == <<81, 67, 65, 82, 45, 48, 48, 48, 48, 48, 52, 52>>
Nearby ==
  {BLEDevice(TestCarId, "00:11:22:33:44:55"),
   BLEDevice(OtherCarId, "00:11:22:33:44:66")}
DeviceIds == {TestCarId, OtherCarId}

\* the devices one discover() lists: one without a name, then the two cars
NearbyList ==
  <<BLEDevice(<<>>, "00:11:22:33:44:44"),
    BLEDevice(TestCarId, "00:11:22:33:44:55"),
    BLEDevice(OtherCarId, "00:11:22:33:44:66")>>

\* what the discover() calls of one scan come to, one after the other:
\* attempts that time out or list nothing (all of a kind, or in turn), then
\* at attempt k an attempt that raises or lists the devices nearby, then
\* empty lists; k beyond MAX_SCAN_RETRIES leaves the former alone
Discoveries ==
  {[i \in 1..MAX_SCAN_RETRIES |->
      IF i < k
      THEN (IF (i + turn) % step = 0 THEN Timeout ELSE Discovered(<<>>))
      ELSE IF i = k THEN last
      ELSE Discovered(<<>>)] :
     k \in 1..(MAX_SCAN_RETRIES + 1), turn \in 0..1, step \in 1..2,
     last \in {Failure, Discovered(NearbyList)}}

\* the device_id of a scan: None, "QCAR-0000044", and "CAR2", which no
\* device nearby has in its name
ScanIds == {<<>>, OtherCarId, Car2Name}

\* the names given to discovered cars
NewNames == {Car2Name, NonexistentCarName}

\* the messages handed to move_command: of 15, 16 and 17 bytes
MessageInputs == {m \in BlockInputs : Len(m) >= 15}

\* speeds of move_forward and move_backward: the default, the lowest tier,
\* and 0x100
SpeedInputs == {DEFAULT_SPEED, 22, 256}

\* durations: None, 0, a negative and a positive number of seconds
DurationInputs == {<<>>, <<0>>, <<-1>>, <<1>>}

\* ShellMotorsportCar() beside a link that is not connected
Init ==
  /\ key = AES_KEY
  /\ commands_file \in {Absent, Document(EditedFile),
                        Document(PrecomputeLoop(NoTable, 64))}
  /\ command_list = _load_commands(commands_file)
  /\ vehicle_list_file \in VehicleFiles
  /\ vehicle_list = _load_vehicle_list(vehicle_list_file)
  /\ InitLink
  /\ InitHandler
  /\ ret = NoCall

\* an operation a call performs on the link: client.disconnect() or
\* client.connect() of the BleakClient of address, or a scan
LinkOp(op, address) == [op |-> op, address |-> address]

\* BLEClient.disconnect() raising what client.disconnect() raises, the
\* client kept
disconnect_unless_failed(fails) ==
  IF client # NoClient /\ is_connected
  THEN IF fails
       THEN [flag |-> _is_connected, bleak |-> client, dev |-> device,
             result |-> Raise("BleakError"),
             steps |-> <<LinkOp("disconnect", client.address)>>]
       ELSE [flag |-> FALSE, bleak |-> NoClient, dev |-> NoDevice,
             result |-> Ok(<<>>),
             steps |-> <<LinkOp("disconnect", client.address)>>]
  ELSE [flag |-> _is_connected, bleak |-> client, dev |-> device,
        result |-> Ok(<<>>), steps |-> <<>>]

\* what BLEClient.disconnect() leaves of the link and gives its caller:
\* with a client that is connected, client.disconnect() is awaited, what it
\* raises (fails) is logged, and the flag, the client and the device are
\* cleared; nothing happens otherwise
disconnect(fails) ==
  IF client # NoClient /\ is_connected
  THEN [flag |-> FALSE, bleak |-> NoClient, dev |-> NoDevice,
        result |-> Ok(<<>>),
        steps |-> <<LinkOp("disconnect", client.address)>>]
  ELSE [flag |-> _is_connected, bleak |-> client, dev |-> device,
        result |-> Ok(<<>>), steps |-> <<>>]

\* connect() that leaves the connection it finds to the new client
connect_without_disconnect(device_id, found, up) ==
  IF found = NoDevice
  THEN [flag |-> _is_connected, bleak |-> client, dev |-> device,
        result |-> Raise("TimeoutError"), scanned |-> <<device_id>>,
        steps |-> <<LinkOp("scan", "")>>]
  ELSE [flag |-> up, bleak |-> BleakClient(found.address, up), dev |-> found,
        result |-> IF up THEN Ok(<<>>) ELSE Raise("ConnectionError"),
        scanned |-> <<device_id>>,
        steps |-> <<LinkOp("scan", ""), LinkOp("connect", found.address)>>]

\* connect() that scans before it disconnects
connect_scanning_first(device_id, found, up) ==
  IF found = NoDevice
  THEN [flag |-> _is_connected, bleak |-> client, dev |-> device,
        result |-> Raise("TimeoutError"), scanned |-> <<device_id>>,
        steps |-> <<LinkOp("scan", "")>>]
  ELSE [flag |-> up, bleak |-> BleakClient(found.address, up), dev |-> found,
        result |-> IF up THEN Ok(<<>>) ELSE Raise("ConnectionError"),
        scanned |-> <<device_id>>,
        steps |-> <<LinkOp("scan", "")>> \o disconnect(FALSE).steps
                    \o <<LinkOp("connect", found.address)>>]

\* what car.connect(device_id) leaves of the link and gives its caller: it
\* disconnects first when connected; the scan for device_id finds a matching
\* device or ends in TimeoutError; client.connect() succeeds (up) or times
\* out or raises; scanned holds the device_id handed to the scan, steps the
\* operations on the link in their order
connect(device_id, found, up) ==
  IF found = NoDevice
  THEN [flag |-> disconnect(FALSE).flag, bleak |-> disconnect(FALSE).bleak,
        dev |-> disconnect(FALSE).dev,
        result |-> Raise("TimeoutError"), scanned |-> <<device_id>>,
        steps |-> disconnect(FALSE).steps \o <<LinkOp("scan", "")>>]
  ELSE [flag |-> up, bleak |-> BleakClient(found.address, up), dev |-> found,
        result |-> IF up THEN Ok(<<>>) ELSE Raise("ConnectionError"),
        scanned |-> <<device_id>>,
        steps |-> disconnect(FALSE).steps
                    \o <<LinkOp("scan", ""), LinkOp("connect", found.address)>>]

\* connect_by_name disconnecting before it looks the name up
connect_by_name_disconnect_first(car_name, found, up) ==
  LET device_id == get_device_id(vehicle_list, car_name)
  IN  IF device_id = <<>> \/ device_id[1] = <<>>
      THEN [flag |-> FALSE, bleak |-> NoClient, dev |-> NoDevice,
            result |-> Raise("ValueError"), scanned |-> <<>>]
      ELSE connect(device_id[1], found, up)

\* car.connect_by_name(car_name): ValueError when get_device_id gives None
\* or "", the link left alone; connect(device_id) otherwise
connect_by_name(car_name, found, up) ==
  LET device_id == get_device_id(vehicle_list, car_name)
  IN  IF device_id = <<>> \/ device_id[1] = <<>>
      THEN [flag |-> _is_connected, bleak |-> client, dev |-> device,
            result |-> Raise("ValueError"), scanned |-> <<>>]
      ELSE connect(device_id[1], found, up)

\* await car.connect(device_id)
Connect(device_id, found, up) ==
  /\ pending = NoLoop
  /\ found # NoDevice => Matches(found, device_id, QCAR)
  /\ written' = <<>>
  /\ \E after \in {connect(device_id, found, up)} :
       /\ _is_connected' = after.flag
       /\ client' = after.bleak
       /\ device' = after.dev
       /\ ret' = Call("connect", device_id, after.result, <<>>)
                  @@ [steps |-> after.steps]
  /\ UNCHANGED <<car, pending, handler>>

\* await car.connect_by_name(car_name); value holds the device_id handed
\* on to connect()
ConnectByName(car_name, found, up) ==
  /\ pending = NoLoop
  /\ written' = <<>>
  /\ \E after \in {connect_by_name(car_name, found, up)} :
       /\ (after.scanned # <<>> /\ found # NoDevice)
            => Matches(found, after.scanned[1], QCAR)
       /\ _is_connected' = after.flag
       /\ client' = after.bleak
       /\ device' = after.dev
       /\ ret' = [Call("connect_by_name", car_name, after.result, <<>>)
                    EXCEPT !.value = after.scanned]
  /\ UNCHANGED <<car, pending, handler>>

\* car.disconnect(), by the caller or, while a timed loop sleeps, by
\* another task, which leaves the record of the call in flight
Disconnect ==
  /\ \E fails \in BOOLEAN :
       \E after \in {disconnect(fails)} :
         /\ _is_connected' = after.flag
         /\ client' = after.bleak
         /\ device' = after.dev
         /\ IF pending = NoLoop
            THEN /\ written' = <<>>
                 /\ ret' = Call("disconnect", <<fails>>, after.result, <<>>)
                           @@ [steps |-> after.steps]
            ELSE UNCHANGED <<written, ret>>
  /\ UNCHANGED <<car, pending, handler>>

\* leaving "async with car:", the body having raised or not: __aexit__
\* awaits car.disconnect() and returns None, so that what the body raised
\* goes on to the caller
AsyncExit(raised) ==
  /\ pending = NoLoop
  /\ written' = <<>>
  /\ \E fails \in BOOLEAN :
       \E after \in {disconnect(fails)} :
         /\ _is_connected' = after.flag
         /\ client' = after.bleak
         /\ device' = after.dev
         /\ ret' = Call("__aexit__", <<raised, fails>>,
                        IF after.result.outcome # "ok" THEN after.result
                        ELSE IF raised THEN Raise("Exception")
                        ELSE Ok(<<>>), <<>>)
                   @@ [steps |-> after.steps]
  /\ UNCHANGED <<car, pending, handler>>

\* the peer goes away: the BleakClient reports it is no longer connected
LinkDrop ==
  /\ client.is_connected
  /\ client' = [client EXCEPT !.is_connected = FALSE]
  /\ UNCHANGED <<car, _is_connected, device, pending, written, ret, handler>>

\* await car.move_command(message)
MoveCommand(message, fails) ==
  /\ pending = NoLoop
  /\ LET res == move_command(message, fails)
     IN  /\ written' = res.value
         /\ ret' = Call("move_command", message, Sent(res.outcome, <<>>), <<>>)
  /\ UNCHANGED <<car, _is_connected, client, device, pending, handler>>

\* await car.stop()
Stop(fails) ==
  /\ pending = NoLoop
  /\ LET res == stop(fails)
     IN  /\ written' = res.value
         /\ ret' = Call("stop", <<>>, Sent(res.outcome, <<>>), <<>>)
  /\ UNCHANGED <<car, _is_connected, client, device, pending, handler>>

\* move_forward and move_backward up to the first await: the message is
\* retrieved, then either sent once or the timed loop is entered; the
\* duration is any of DurationInputs, and write_gatt_char raises or not
Move(op, forward, backward, speed) ==
  /\ pending = NoLoop
  /\ \E message \in {retrieve_precomputed_message(command_list, forward,
                                                   backward, 0, 0, speed)},
        duration \in DurationInputs :
       IF message.outcome # "ok"
       THEN /\ written' = <<>>
            /\ ret' = Call(op, <<speed, duration>>,
                           Sent(message.outcome, <<>>), <<>>)
            /\ UNCHANGED pending
       ELSE IF Truthy(duration)
       THEN /\ written' = <<>>
            /\ pending' = [op |-> op, message |-> message.value,
                           duration |-> duration[1]]
            /\ ret' = Call(op, <<speed, duration>>, Sent("running", <<>>),
                           <<>>)
       ELSE \E fails \in BOOLEAN :
              LET res == move_command(message.value, fails)
              IN  /\ written' = res.value
                  /\ ret' = Call(op, <<speed, duration>>,
                                 Sent(res.outcome, <<>>), <<>>)
                  /\ UNCHANGED pending
  /\ UNCHANGED <<car, _is_connected, client, device, handler>>

\* await car.move_forward(speed, duration)
MoveForward(speed) == Move("move_forward", 1, 0, speed)

\* await car.move_backward(speed, duration)
MoveBackward(speed) == Move("move_backward", 0, 1, speed)

\* one turn of the timed loop: the clock is before end_time, which takes a
\* positive duration, and move_command(message) is awaited
SendTick(fails) ==
  /\ pending # NoLoop
  /\ pending.duration > 0
  /\ Len(written) < MaxWrites
  /\ LET res == move_command(pending.message, fails)
     IN  /\ written' = written \o res.value
         /\ IF res.outcome = "ok"
            THEN UNCHANGED <<pending, ret>>
            ELSE /\ pending' = NoLoop
                 /\ ret' = [ret EXCEPT !.outcome = res.outcome]
  /\ UNCHANGED <<car, _is_connected, client, device, handler>>

\* the timed loop ends: the clock has reached end_time
SendDone ==
  /\ pending # NoLoop
  /\ pending' = NoLoop
  /\ ret' = [ret EXCEPT !.outcome = "ok"]
  /\ UNCHANGED <<car, _is_connected, client, device, written, handler>>

Next ==
  \/ \E d \in DeviceIds, found \in Nearby \cup {NoDevice}, up \in BOOLEAN :
       Connect(d, found, up)
  \/ \E n \in CarNames, found \in Nearby \cup {NoDevice}, up \in BOOLEAN :
       ConnectByName(n, found, up)
  \/ Disconnect
  \/ LinkDrop
  \/ \E m \in MessageInputs, fails \in BOOLEAN : MoveCommand(m, fails)
  \/ \E fails \in BOOLEAN : Stop(fails)
  \/ \E s \in SpeedInputs : MoveForward(s)
  \/ \E s \in SpeedInputs : MoveBackward(s)
  \/ \E fails \in BOOLEAN : SendTick(fails)
  \/ SendDone

Spec == Init /\ [][Next]_vars

(***************************************************************************)
(* The connection of a car: connect, disconnect and the context manager    *)
(***************************************************************************)
NextLink ==
  \/ \E d \in DeviceIds, found \in Nearby \cup {NoDevice}, up \in BOOLEAN :
       Connect(d, found, up)
  \/ \E n \in CarNames, found \in Nearby \cup {NoDevice}, up \in BOOLEAN :
       ConnectByName(n, found, up)
  \/ Disconnect
  \/ LinkDrop
  \/ \E raised \in BOOLEAN : AsyncExit(raised)

SpecLink == Init /\ [][NextLink]_vars

(***************************************************************************)
(* The command table of a car that starts empty, read while it is filled   *)
(***************************************************************************)
\* ShellMotorsportCar() on a commands file that is missing or does not load
InitTransparent ==
  /\ key = AES_KEY
  /\ commands_file \in {Absent, Corrupt}
  /\ command_list = _load_commands(commands_file)
  /\ vehicle_list_file = Absent
  /\ vehicle_list = _load_vehicle_list(vehicle_list_file)
  /\ InitLink
  /\ InitHandler
  /\ ret = NoCall

\* car.precompute_messages() in one thread and, once its loops have made n
\* insertions, car.retrieve_precomputed_message(..) in another, which reads
\* the table as it then is; the run then completes and saves the table
RetrieveDuringPrecompute(n, forward, backward, left, right, speed) ==
  /\ \E seen \in {PrecomputeLoop(command_list, n)} :
       ret' = [Call("retrieve_precomputed_message",
                    <<forward, backward, left, right, speed>>,
                    retrieve_precomputed_message(seen, forward, backward,
                                                 left, right, speed), <<>>)
                 EXCEPT !.plain = <<n>>]
  /\ command_list' = PrecomputeLoop(command_list, 64)
  /\ commands_file' =
       _save_commands(command_list', commands_file, "none").file
  /\ UNCHANGED <<registry, key, link, handler>>

NextTransparent ==
  \/ \E q \in Requests : Retrieve(q[1], q[2], q[3], q[4], q[5])
  \/ Precompute
  \/ \E n \in ObservedAt, q \in Requests :
       RetrieveDuringPrecompute(n, q[1], q[2], q[3], q[4], q[5])

SpecTransparent == InitTransparent /\ [][NextTransparent]_vars

(***************************************************************************)
(* Discovery: scans, and the vehicle list of a car                         *)
(***************************************************************************)
\* ShellMotorsportCar() on a vehicle list file that is missing, holds a
\* document or does not load
InitDiscovery ==
  /\ key = AES_KEY
  /\ commands_file = Absent
  /\ command_list = NoTable
  /\ vehicle_list_file \in VehicleFiles \cup {Corrupt}
  /\ vehicle_list = _load_vehicle_list(vehicle_list_file)
  /\ InitLink
  /\ InitHandler
  /\ ret = NoCall

\* the record of a call that scans
ScanCall(op, args, res) ==
  [op |-> op, args |-> args, outcome |-> res.outcome, value |-> res.value,
   attempts |-> res.attempts, sleeps |-> res.sleeps, plain |-> <<>>,
   connected |-> is_connected]

\* await car.ble_client.scan_for_device(device_id)
ScanForDevice(device_id, discoveries) ==
  /\ ret' = ScanCall("scan_for_device",
                     [device_id |-> device_id, discoveries |-> discoveries],
                     scan_for_device(device_id, QCAR, discoveries))
  /\ UNCHANGED <<car, link, handler>>

\* await car.find_car(device_id)
FindCar(device_id, discoveries) ==
  /\ ret' = ScanCall("find_car",
                     [device_id |-> device_id, discoveries |-> discoveries],
                     find_car(device_id, discoveries))
  /\ UNCHANGED <<car, link, handler>>

\* await car.find_and_name_car(new_name); fault says how the save fails
FindAndNameCar(new_name, discoveries, fault) ==
  /\ \E after \in {find_and_name_car(vehicle_list, vehicle_list_file,
                                      new_name, discoveries, fault)} :
       /\ vehicle_list' = after.vehicles
       /\ vehicle_list_file' = after.file
       /\ ret' = ScanCall("find_and_name_car",
                          [new_name |-> new_name,
                           discoveries |-> discoveries, fault |-> fault],
                          after.result)
  /\ UNCHANGED <<key, command_list, commands_file, link, handler>>

\* car.get_device_id(car_name)
GetDeviceId(car_name) ==
  /\ ret' = Call("get_device_id", car_name,
                 Ok(get_device_id(vehicle_list, car_name)), <<>>)
  /\ UNCHANGED <<car, link, handler>>

NextDiscovery ==
  \/ \E device_id \in ScanIds, discoveries \in Discoveries :
       ScanForDevice(device_id, discoveries)
  \/ \E device_id \in ScanIds, discoveries \in Discoveries :
       FindCar(device_id, discoveries)
  \/ \E new_name \in NewNames, discoveries \in Discoveries,
        fault \in {"none", "open", "dump"} :
       FindAndNameCar(new_name, discoveries, fault)
  \/ \E car_name \in CarNames : GetDeviceId(car_name)

SpecDiscovery == InitDiscovery /\ [][NextDiscovery]_vars

(***************************************************************************)
(* The handler of the controller, polled                                   *)
(***************************************************************************)
\* the calibration state of the handler as parse_joycon_status takes it
Calibration ==
  [y_center |-> _y_center, y_min |-> _y_min, y_max |-> _y_max,
   samples |-> _center_samples, calibrated |-> _center_calibrated]

\* ShellMotorsportCar() with its JoyConHandler()
InitJoycon ==
  /\ key = AES_KEY
  /\ command_list = NoTable
  /\ commands_file = Absent
  /\ vehicle_list_file = Absent
  /\ vehicle_list = NoVehicles
  /\ InitLink
  /\ InitHandler
  /\ ret = NoCall

\* handler.parse_joycon_status(status, device_type, current_speed, rotated)
ParseCall(status, device_type, current_speed, rotated, info) ==
  /\ \E res \in {parse_joycon_status(Calibration, status, device_type,
                                     current_speed, rotated, info)} :
       /\ _y_center' = res.h.y_center
       /\ _y_min' = res.h.y_min
       /\ _y_max' = res.h.y_max
       /\ _center_samples' = res.h.samples
       /\ _center_calibrated' = res.h.calibrated
       /\ ret' = [op |-> "parse_joycon_status",
                  args |-> [status |-> status, device_type |-> device_type,
                            current_speed |-> current_speed,
                            rotated |-> rotated, info |-> info],
                  outcome |-> res.outcome, value |-> res.value,
                  caught |-> res.caught, plain |-> <<>>,
                  connected |-> is_connected]
  /\ UNCHANGED <<car, link>>

\* the polls of the model: those in rotated mode while the calibration holds
\* fewer than MaxSamples samples
Parse(status, device_type, current_speed, rotated, info) ==
  /\ rotated => Len(_center_samples) < MaxSamples
  /\ ParseCall(status, device_type, current_speed, rotated, info)

NextJoycon ==
  \E device_type \in DeviceTypes, current_speed \in CurrentSpeeds,
     rotated \in BOOLEAN :
    \E info \in (IF device_type = "Plus" THEN BOOLEAN ELSE {FALSE}),
       status \in (IF rotated THEN RotatedSnapshots(device_type)
                    ELSE Snapshots(device_type)) :
      Parse(status, device_type, current_speed, rotated, info)

SpecJoycon == InitJoycon /\ [][NextJoycon]_vars

(***************************************************************************)
(* The handler polled in rotated mode until and beyond its calibration     *)
(***************************************************************************)
\* a rotated poll of the sweep, x at rest
Sweep(device_type, y) ==
  /\ Len(_center_samples) < max_samples
  /\ ParseCall(Snapshot(device_type, {},
                        PyDict(("x" :> Float(0)) @@ ("y" :> Float(y)))),
               device_type, DEFAULT_SPEED, TRUE, FALSE)

\* a rotated poll once max_samples samples are in
PollLater(device_type, x, y) ==
  /\ Len(_center_samples) >= max_samples
  /\ Len(_center_samples) < max_samples + MaxExtra
  /\ ParseCall(Snapshot(device_type, {},
                        PyDict(("x" :> Float(x)) @@ ("y" :> Float(y)))),
               device_type, DEFAULT_SPEED, TRUE, FALSE)

NextCalibration ==
  \E device_type \in {"Plus", "Minus"} :
    \/ \E y \in SweepInputs(_center_samples) \cup {0} : Sweep(device_type, y)
    \/ \E x \in {-500, -99, 0}, y \in LaterInputs :
         PollLater(device_type, x, y)

SpecCalibration == InitJoycon /\ [][NextCalibration]_vars

(***************************************************************************)
(* Commands from the controller                                            *)
(***************************************************************************)
\* ShellMotorsportCar() with its JoyConHandler() and its command table
InitCommand ==
  /\ key = AES_KEY
  /\ commands_file \in InitialFiles
  /\ command_list = _load_commands(commands_file)
  /\ vehicle_list_file = Absent
  /\ vehicle_list = _load_vehicle_list(vehicle_list_file)
  /\ InitLink
  /\ InitHandler
  /\ ret = NoCall

\* car.get_joycon_command(status, device_type, current_speed, rotated)
GetJoyconCommand(status, device_type, current_speed, rotated) ==
  /\ rotated => Len(_center_samples) < MaxSamples
  /\ \E res \in {get_joycon_command(Calibration, command_list, status,
                                    device_type, current_speed, rotated,
                                    FALSE)} :
       /\ _y_center' = res.h.y_center
       /\ _y_min' = res.h.y_min
       /\ _y_max' = res.h.y_max
       /\ _center_samples' = res.h.samples
       /\ _center_calibrated' = res.h.calibrated
       /\ ret' = [op |-> "get_joycon_command",
                  args |-> [status |-> status, device_type |-> device_type,
                            current_speed |-> current_speed,
                            rotated |-> rotated],
                  outcome |-> "ok", value |-> res.value,
                  state |-> res.state, plain |-> <<>>,
                  connected |-> is_connected]
  /\ UNCHANGED <<car, link>>

NextCommand ==
  \/ \E device_type \in {"Plus", "Minus"},
        current_speed \in {DEFAULT_SPEED, 256}, rotated \in BOOLEAN :
       \E status \in CommandSnapshots(device_type) :
         GetJoyconCommand(status, device_type, current_speed, rotated)
  \/ Precompute

SpecCommand == InitCommand /\ [][NextCommand]_vars

(***************************************************************************)
(* Properties                                                              *)
(***************************************************************************)
\* the key of the control state args, and whether command_list holds an
\* entry under it
KeyOf(args) == Key(args[1], args[2], args[3], args[4], args[5])
Held(args) == KeyOf(args) \in DOMAIN command_list

\* C1, as stated: whenever command_list holds an entry under the key of the
\* requested control state, retrieve_precomputed_message returns the
\* base64-decoded entry.
C1_HitReturnsDecodedEntry ==
  (ret.op = "retrieve_precomputed_message" /\ Held(ret.args))
    => LET stored == b64decode(command_list[KeyOf(ret.args)])
       IN  /\ stored.outcome = "ok"
           /\ ret.outcome = "ok"
           /\ ret.value = stored.value

\* C1, amended: whenever command_list holds, under the key of the requested
\* control state, a non-empty entry that base64-decodes without error,
\* retrieve_precomputed_message returns the decoded entry, whether or not a
\* fresh encoding would give the same bytes; the entries precompute_messages
\* writes are of that kind.
C1_DecodableHitReturnsDecodedEntry ==
  /\ ((ret.op = "retrieve_precomputed_message" /\ Held(ret.args)
       /\ command_list[KeyOf(ret.args)] # <<>>
       /\ b64decode(command_list[KeyOf(ret.args)]).outcome = "ok")
        => /\ ret.outcome = "ok"
           /\ ret.value = b64decode(command_list[KeyOf(ret.args)]).value)
  /\ \A i \in 1..64 :
       (ret.op = "retrieve_precomputed_message"
        /\ KeyOf(ret.args) = LoopKeys[i]
        /\ Held(ret.args) /\ command_list[LoopKeys[i]] = LoopEntries[i])
         => ret.value = b64decode(LoopEntries[i]).value

\* C1, witness: the table holds the encoding of another message under the
\* key of forward at the default speed, and the call returned that message
C1_StaleEntryReturned ==
  /\ ret.op = "retrieve_precomputed_message"
  /\ ret.args = <<1, 0, 0, 0, DEFAULT_SPEED>>
  /\ Held(ret.args)
  /\ command_list[KeyOf(ret.args)] = b64encode(IDLE_MESSAGE)
  /\ ret.value = IDLE_MESSAGE

C3_PrecomputeLeaves64Entries ==
  (ret.op = "precompute_messages" /\ ret.outcome = "ok")
    => Cardinality(DOMAIN command_list) = 64

\* C4: the plaintext _create_message hands to the cipher for a valid control
\* state is 16 bytes: 0, 'C', 'T', 'L', forward, backward, left, right, 0,
\* speed and six zeros, and the ciphertext returned decrypts to it; for
\* (1, 0, 0, 0, 0x50) it is 00 43 54 4C 01 00 00 00 00 50 00 .. 00.
C4_PlaintextLayout ==
  (ret.op = "_create_message" /\ ret.outcome = "ok")
    => \A layout \in {<<0, 67, 84, 76, ret.args[1], ret.args[2], ret.args[3],
                        ret.args[4], 0, ret.args[5], 0, 0, 0, 0, 0, 0>>} :
         /\ Len(ret.plain) = 16
         /\ ret.plain = layout
         /\ AESDecryptBlock(AES_KEY, ret.value) = layout
         /\ (ret.args = <<1, 0, 0, 0, 80>>
               => ret.plain = <<0, 67, 84, 76, 1, 0, 0, 0, 0, 80,
                                0, 0, 0, 0, 0, 0>>)

\* C4, witness: _create_message(1, 0, 0, 0, 0x50) has handed its frame over
C4_ForwardFrameBuilt ==
  /\ ret.op = "_create_message"
  /\ ret.args = <<1, 0, 0, 0, 80>>
  /\ ret.outcome = "ok"
  /\ ret.plain = <<0, 67, 84, 76, 1, 0, 0, 0, 0, 80, 0, 0, 0, 0, 0, 0>>

\* C5: decrypting, under the same key, what encrypt returned for a 16-byte
\* plaintext gives that plaintext back.
C5_DecryptInvertsEncrypt ==
  (ret.op = "decrypt" /\ ret.plain # <<>>)
    => (ret.outcome = "ok" /\ ret.value = ret.plain)

\* C5, witness: b"1234567890123456" came back from its ciphertext
C5_RoundTripDone ==
  /\ ret.op = "decrypt"
  /\ ret.plain = <<49, 50, 51, 52, 53, 54, 55, 56, 57, 48, 49, 50, 51, 52,
                   53, 54>>
  /\ ret.args # ret.plain
  /\ ret.value = ret.plain

\* C7: _create_message fails with ValueError and gives no ciphertext exactly
\* when a flag is not 0 or 1 or the speed is outside 0..255; otherwise it
\* succeeds with 16 bytes.
C7_InvalidParameterRejected ==
  ret.op = "_create_message"
    => IF \/ \E i \in 1..4 : ret.args[i] \notin {0, 1}
          \/ ret.args[5] < 0
          \/ ret.args[5] > 255
       THEN ret.outcome = "ValueError" /\ ret.value = <<>>
       ELSE ret.outcome = "ok" /\ Len(ret.value) = 16

\* C7, witness: forward = 2 at the default speed was refused
C7_Forward2Refused ==
  /\ ret.op = "_create_message"
  /\ ret.args = <<2, 0, 0, 0, DEFAULT_SPEED>>
  /\ ret.outcome = "ValueError"

\* C8: encrypt and decrypt fail with ValueError for every input that is not
\* 16 bytes long and return 16 bytes for every 16-byte input; constructing a
\* MessageEncryptor with a key that is not 16 bytes long fails with
\* ValueError and gives no encryptor.
C8_BlockSizeEnforced ==
  /\ (ret.op \in {"encrypt", "decrypt"}
        => IF Len(ret.args) = 16
           THEN ret.outcome = "ok" /\ Len(ret.value) = 16
           ELSE ret.outcome = "ValueError" /\ ret.value = <<>>)
  /\ (ret.op = "MessageEncryptor"
        => IF Len(ret.args) = 16
           THEN ret.outcome = "ok" /\ key = ret.args
           ELSE ret.outcome = "ValueError" /\ key = NoObject)

\* C8, witness: encrypt refused a message one byte short of a block
C8_ShortMessageRefused ==
  /\ ret.op = "encrypt"
  /\ Len(ret.args) = 15
  /\ ret.outcome = "ValueError"

\* C9: a send operation that returned, and was invoked while is_connected()
\* was false, failed with ConnectionError and wrote nothing to the link.
C9_DisconnectedSendFails ==
  (ret.op \in {"move_command", "stop", "move_forward", "move_backward"}
   /\ ~ret.connected /\ ret.outcome # "running")
    => (ret.outcome = "ConnectionError" /\ written = <<>>)

\* C10: stop() on a connected controller hands exactly one message to the
\* link, e1055f54d880f49c2ce547267f930bf2, whatever the table holds and
\* whatever was sent before.
C10_StopWritesIdleMessage ==
  (ret.op = "stop" /\ ret.connected)
    => /\ written = <<<<225, 5, 95, 84, 216, 128, 244, 156, 44, 229, 71, 38,
                        127, 147, 11, 242>>>>
       /\ written = <<IDLE_MESSAGE>>
       /\ ret.outcome \in {"ok", "BleakError"}

\* C10, witness: stop() went through on a car whose table holds an entry
\* under the key of forward at the default speed
C10_StopSent ==
  /\ ret.op = "stop"
  /\ ret.connected
  /\ ret.outcome = "ok"
  /\ Key(1, 0, 0, 0, DEFAULT_SPEED) \in DOMAIN command_list
  /\ written = <<IDLE_MESSAGE>>

\* a step that is a connect_by_name call
ConnectByNameStep ==
  \E n \in CarNames, found \in Nearby \cup {NoDevice}, up \in BOOLEAN :
    ConnectByName(n, found, up)

\* C11, as stated: connect_by_name(name) fails with ValueError when name is
\* absent from vehicle_list, and then leaves the link as it was, no scan, no
\* connect and no disconnect made; when name is registered it hands the
\* registered device ID to connect().
C11_ByNameAbsentRefusedElseDelegates ==
  [][ConnectByNameStep
       => IF ret'.args \notin DOMAIN vehicle_list
          THEN /\ ret'.outcome = "ValueError"
               /\ ret'.value = <<>>
               /\ UNCHANGED <<_is_connected, client, device>>
          ELSE ret'.value = <<vehicle_list[ret'.args]>>]_vars

\* C11, amended: connect_by_name(name) fails with ValueError when name is
\* absent from vehicle_list or registered with an empty device ID, and then
\* leaves the link as it was, no scan, no connect and no disconnect made;
\* otherwise it hands the registered device ID to connect(), so that it
\* ends as connect() does and, when it succeeds, the car is connected to a
\* device whose name holds that ID.
C11_ByNameUnusableRefusedElseDelegates ==
  [][ConnectByNameStep
       => IF \/ ret'.args \notin DOMAIN vehicle_list
             \/ vehicle_list[ret'.args] = <<>>
          THEN /\ ret'.outcome = "ValueError"
               /\ ret'.value = <<>>
               /\ UNCHANGED <<_is_connected, client, device>>
          ELSE /\ ret'.value = <<vehicle_list[ret'.args]>>
               /\ ret'.outcome \in {"ok", "TimeoutError", "ConnectionError"}
               /\ ret'.outcome = "ok"
                    => /\ is_connected'
                       /\ Contains(vehicle_list[ret'.args], device'.name)]_vars

\* C11, witness: "CAR2", registered with "", was refused on a connected car,
\* which stayed connected
C11_EmptyIdRefusedWhileConnected ==
  /\ ret.op = "connect_by_name"
  /\ ret.args = Car2Name
  /\ Car2Name \in DOMAIN vehicle_list
  /\ ret.outcome = "ValueError"
  /\ ret.connected
  /\ is_connected

\* C12, as stated: every payload handed to the link is 16 bytes; a
\* move_command or stop that succeeds hands over exactly one; a move_command
\* whose message is not 16 bytes fails with ValueError and hands over none.
C12_OneBlockPerSendElseValueError ==
  /\ \A i \in DOMAIN written : Len(written[i]) = 16
  /\ (ret.op \in {"move_command", "stop"} /\ ret.outcome = "ok")
       => Len(written) = 1
  /\ (ret.op = "move_command" /\ Len(ret.args) # 16)
       => (ret.outcome = "ValueError" /\ written = <<>>)

\* C12, amended: every payload handed to the link is 16 bytes; a
\* move_command or stop that succeeds hands over exactly one; a move_command
\* whose message is not 16 bytes hands over none and fails, with ValueError
\* on a connected car and with ConnectionError on one that is not connected.
C12_OneBlockPerSendElseRefused ==
  /\ \A i \in DOMAIN written : Len(written[i]) = 16
  /\ (ret.op \in {"move_command", "stop"} /\ ret.outcome = "ok")
       => Len(written) = 1
  /\ (ret.op = "move_command" /\ Len(ret.args) # 16)
       => /\ written = <<>>
          /\ ret.outcome = IF ret.connected THEN "ValueError"
                           ELSE "ConnectionError"

\* C12, witness: a connected car refused a message of 17 bytes with
\* ValueError
C12_LongMessageRefusedConnected ==
  /\ ret.op = "move_command"
  /\ Len(ret.args) = 17
  /\ ret.connected
  /\ ret.outcome = "ValueError"
  /\ written = <<>>

\* the steps that are a move_command call, a stop call, a turn of a timed
\* loop, a disconnect call
MoveCommandStep ==
  \E m \in MessageInputs, fails \in BOOLEAN : MoveCommand(m, fails)
StopStep == \E fails \in BOOLEAN : Stop(fails)
SendTickStep == \E fails \in BOOLEAN : SendTick(fails)

\* C13: once disconnect() has completed, or the link has reported that it
\* is no longer connected, is_connected() is false and stays false until a
\* connect succeeds, and every move_command, stop and turn of a timed
\* move_forward / move_backward loop made meanwhile fails with
\* ConnectionError and hands nothing to the link, the loop ending there.
C13_SendsFailFastAfterDisconnect ==
  [][/\ (Disconnect \/ LinkDrop) => ~is_connected'
     /\ (~is_connected /\ is_connected')
          => (ret'.op \in {"connect", "connect_by_name"}
              /\ ret'.outcome = "ok")
     /\ (~is_connected /\ (MoveCommandStep \/ StopStep))
          => (ret'.outcome = "ConnectionError" /\ written' = <<>>)
     /\ (~is_connected /\ SendTickStep)
          => (ret'.outcome = "ConnectionError" /\ written' = written
              /\ pending' = NoLoop)]_vars

\* C13, witness: a timed move_forward begun on a connected car sent its
\* message, lost the connection and ended with ConnectionError at its next
\* turn
C13_LoopEndedByDisconnect ==
  /\ ret.op = "move_forward"
  /\ ret.connected
  /\ ret.outcome = "ConnectionError"
  /\ Len(written) = 1
  /\ pending = NoLoop
  /\ ~is_connected

\* C14: a move_command or stop call hands at most one payload to the link;
\* when write_gatt_char raises on it, the call fails with what was raised,
\* the payload having been handed over once.
C14_WriteFailurePropagatesUnretried ==
  [][/\ (MoveCommandStep \/ StopStep) => Len(written') <= 1
     /\ (is_connected
         /\ \/ \E m \in MessageInputs : Len(m) = 16 /\ MoveCommand(m, TRUE)
            \/ Stop(TRUE))
          => (ret'.outcome = "BleakError" /\ Len(written') = 1)]_vars

\* C14, witness: stop() failed with the error of the one write it made
C14_StopWriteFailed ==
  /\ ret.op = "stop"
  /\ ret.outcome = "BleakError"
  /\ written = <<IDLE_MESSAGE>>

\* a run of precompute_messages on table, saved over file, would leave
\* both as they are
Settled(table, file) ==
  /\ \A after \in {PrecomputeLoop(table, 64)} : after = table
  /\ file = Document(table)

\* C15: a run of precompute_messages that completes leaves command_list
\* and the commands file such that another run changes neither, and the
\* retrieve_precomputed_message calls made in between change neither.
C15_PrecomputeIdempotent ==
  [][/\ Precompute => Settled(command_list', commands_file')
     /\ (/\ ret'.op = "retrieve_precomputed_message"
         /\ \E q \in {ret'.args} : Retrieve(q[1], q[2], q[3], q[4], q[5]))
          => UNCHANGED <<command_list, commands_file>>]_vars

\* C15, witness: a message was retrieved after a completed run, in a state
\* from which another run changes nothing
C15_RetrievedAfterRun ==
  /\ ret.op = "retrieve_precomputed_message"
  /\ \A i \in 1..64 : LoopKeys[i] \in DOMAIN command_list
  /\ Settled(command_list, commands_file)

\* C16, as stated: a failure to load the commands file at start-up, and a
\* failure to save it after precomputation, reach the caller as an error.
C16_StorageFailuresPropagate ==
  [][/\ PrecomputeSaveFails => ret'.outcome # "ok"
     /\ (Restart(TRUE) \/ (commands_file = Corrupt /\ Restart(FALSE)))
          => ret'.outcome # "ok"]_vars

\* C16, amended: a failure to save the commands file after precomputation
\* reaches the caller as an error, command_list keeping what was computed;
\* a failure to load it at start-up (the file cannot be read or does not
\* parse) does not: the car is constructed with an empty command_list.
C16_SaveFailurePropagatesLoadFailureSwallowed ==
  [][/\ PrecomputeSaveFails
          => /\ ret'.outcome = "OSError"
             /\ command_list' = PrecomputeLoop(command_list, 64)
             /\ commands_file' \in {commands_file, Corrupt}
     /\ (Restart(TRUE) \/ (commands_file = Corrupt /\ Restart(FALSE)))
          => (ret'.outcome = "ok" /\ command_list' = NoTable)]_vars

\* C16, witness: a car was constructed on the file a failed save had left
\* unparseable, and holds an empty command_list
C16_ConstructedOnCorruptFile ==
  /\ ret.op = "__init__"
  /\ ret.outcome = "ok"
  /\ commands_file = Corrupt
  /\ command_list = NoTable

\* the fields of the snapshot of the last poll: the buttons and the stick of
\* the side of its device_type
PolledButtons ==
  ret.args.status.v["buttons"].v[SideOf[ret.args.device_type]].v
PolledStick ==
  ret.args.status.v["analogs"].v[SideOf[ret.args.device_type]].v

\* the last poll was of a snapshot of the shape of the tests for "Plus" or
\* "Minus", and ran to its end
PolledWellFormed ==
  /\ ret.op = "parse_joycon_status"
  /\ ret.args.device_type \in {"Plus", "Minus"}
  /\ \E pressed \in SUBSET ButtonNames(ret.args.device_type),
        v \in AxisInputs :
       ret.args.status = Snapshot(ret.args.device_type, pressed,
                                  PyDict("x" :> Float(v)))
  /\ ret.outcome = "ok"
  /\ ret.caught = "none"

\* C17: the speed of a poll is that of the first pressed speed-tier button
\* in the order low, medium, high, max (Plus: a = 0x16, b = 0x32, y = 0x48,
\* x = 0x64; Minus: left = 0x16, down = 0x32, right = 0x48, up = 0x64), so
\* that of the one pressed when one is; it is current_speed when none is.
C17_FirstPressedTierWins ==
  PolledWellFormed
    => LET tiers == IF ret.args.device_type = "Plus"
                    THEN <<"a", "b", "y", "x">>
                    ELSE <<"left", "down", "right", "up">>
           speeds == <<22, 50, 72, 100>>
           pressed == {i \in 1..4 : PolledButtons[tiers[i]].v}
       IN  ret.value[5] =
             IF pressed = {} THEN ret.args.current_speed
             ELSE speeds[CHOOSE i \in pressed : \A j \in pressed : i <= j]

\* C17, witness: b and x of a Plus were pressed together and the speed
\* came out 0x32
C17_MediumBeatsMax ==
  /\ ret.op = "parse_joycon_status"
  /\ ret.args.device_type = "Plus"
  /\ ret.args.status = Snapshot("Plus", {"b", "x"}, PyDict("x" :> Float(0)))
  /\ ret.args.current_speed = DEFAULT_SPEED
  /\ ret.value = <<0, 0, 0, 0, 50>>

\* C18: in direct mode, with v the x value of the stick, a poll gives
\* left = 0 and right = 0 when |v| < 0.1, left = 1 and right = 0 when
\* v <= -0.1, left = 0 and right = 1 when v >= 0.1; 0.099 sets neither flag
\* and 0.101 sets right alone.
C18_DirectDeadzone ==
  (PolledWellFormed /\ ~ret.args.rotated)
    => \A v \in {PolledStick["x"].v} :
         /\ (-JOYCON_DEADZONE < v /\ v < JOYCON_DEADZONE)
              => (ret.value[3] = 0 /\ ret.value[4] = 0)
         /\ v <= -JOYCON_DEADZONE => (ret.value[3] = 1 /\ ret.value[4] = 0)
         /\ v >= JOYCON_DEADZONE => (ret.value[3] = 0 /\ ret.value[4] = 1)
         /\ v = Milli(99) => (ret.value[3] = 0 /\ ret.value[4] = 0)
         /\ v = Milli(101) => (ret.value[3] = 0 /\ ret.value[4] = 1)

\* C18, witness: x = 0.101 on a Minus in direct mode set right alone
C18_JustBeyondDeadzoneSteersRight ==
  /\ ret.op = "parse_joycon_status"
  /\ ret.args.device_type = "Minus"
  /\ ~ret.args.rotated
  /\ ret.args.status = Snapshot("Minus", {}, PyDict("x" :> Float(101)))
  /\ ret.value[3] = 0
  /\ ret.value[4] = 1

\* C19: polled in direct mode, the snapshot with sr pressed and a stick
\* reporting y alone gives forward = 1, backward = 0 and steers by the sign
\* of y: right alone for y = 0.5 on a Plus, left alone for y = -0.5 on a
\* Minus.
C19_YAloneSteersInDirectMode ==
  (ret.op = "parse_joycon_status" /\ ~ret.args.rotated)
    => /\ (ret.args.device_type = "Plus"
           /\ ret.args.status = Snapshot("Plus", {"sr"},
                                         PyDict("y" :> Float(500))))
            => (ret.outcome = "ok"
                /\ SubSeq(ret.value, 1, 4) = <<1, 0, 0, 1>>)
       /\ (ret.args.device_type = "Minus"
           /\ ret.args.status = Snapshot("Minus", {"sr"},
                                         PyDict("y" :> Float(-500))))
            => (ret.outcome = "ok"
                /\ SubSeq(ret.value, 1, 4) = <<1, 0, 1, 0>>)

\* C20: parse_joycon_status raises for no snapshot; for {} and for the
\* malformed snapshots it returns (0, 0, 0, 0, current_speed).
C20_PollNeverRaises ==
  ret.op = "parse_joycon_status"
    => /\ ret.outcome = "ok"
       /\ (\/ ret.args.status = PyDict(<<>>)
           \/ /\ ret.args.device_type \in DOMAIN SideOf
              /\ ret.args.status \in MalformedSnapshots(ret.args.device_type))
            => ret.value = <<0, 0, 0, 0, ret.args.current_speed>>

\* C21: a button or axis field absent from the snapshot counts as not
\* pressed / 0.0 and leaves the fields present their effect: polled with
\* some speed-tier fields absent, the speed is the tier of the first
\* button, in the order low, medium, high, max, that is present and
\* pressed (0x64 for a Plus snapshot whose only speed button is x = true),
\* current_speed when there is none; forward, backward and the steering
\* are those of the fields present.
C21_AbsentFieldsCountAsReleased ==
  (/\ ret.op = "parse_joycon_status"
   /\ ~ret.args.rotated
   /\ ret.args.device_type \in DOMAIN SideOf
   /\ ret.args.status \in PartialSnapshots(ret.args.device_type))
    => LET tier == SpeedButtons[ret.args.device_type]
           x == IF "analogs" \in DOMAIN ret.args.status.v
                THEN PolledStick["x"].v ELSE 0
           Down(name) == /\ name \in DOMAIN PolledButtons
                         /\ PolledButtons[name].v
           pressed == {i \in 1..4 : Down(tier[i])}
       IN  /\ ret.outcome = "ok"
           /\ ret.value =
                <<IF Down("sr") THEN 1 ELSE 0,
                  IF Down("sl") THEN 1 ELSE 0,
                  IF x <= -JOYCON_DEADZONE THEN 1 ELSE 0,
                  IF x >= JOYCON_DEADZONE THEN 1 ELSE 0,
                  IF pressed = {} THEN ret.args.current_speed
                  ELSE DEFAULT_SPEED_PROFILES[
                         TierOrder[CHOOSE i \in pressed :
                                     \A j \in pressed : i <= j]]>>

\* C22: once _center_calibrated is true it stays true and _y_center never
\* changes, whatever is polled afterwards, samples beyond the running
\* minimum or maximum included.
C22_CalibrationOneShot ==
  [][_center_calibrated
       => (_center_calibrated' /\ _y_center' = _y_center)]_vars

\* C22, witness: calibrated at 0.055 by a sweep over 0.020 .. 0.090, the
\* handler has since taken a sample of 0.005 and one of 0.5
C22_RangeGrownAfterCalibration ==
  /\ _center_calibrated
  /\ _y_center = Float(55)
  /\ _y_min = Float(5)
  /\ _y_max = Float(500)

\* C23: _center_samples never holds more than max_samples (100) samples,
\* however many rotated polls are processed.
C23_SampleBufferBounded ==
  Len(_center_samples) <= max_samples

\* the least and the greatest of the first n samples
SampleMin(n) ==
  CHOOSE v \in {_center_samples[i].v : i \in 1..n} :
    \A i \in 1..n : v <= _center_samples[i].v
SampleMax(n) ==
  CHOOSE v \in {_center_samples[i].v : i \in 1..n} :
    \A i \in 1..n : v >= _center_samples[i].v

\* C24: once 100 non-zero samples are in, the handler is calibrated and
\* _y_center is (min + max) / 2 of those samples, hence between their
\* minimum and maximum (within 0.02 .. 0.09 when they are); a later rotated
\* poll with y at the center and x not negative gives left = 0, right = 0.
C24_CenterIsMidrange ==
  Len(_center_samples) >= max_samples
    => \A lo \in {SampleMin(max_samples)}, hi \in {SampleMax(max_samples)} :
         /\ _center_calibrated
         /\ _y_center = PyFloat((lo + hi) \div 2)
         /\ lo <= _y_center.v /\ _y_center.v <= hi
         /\ (Milli(20) <= lo /\ hi <= Milli(90))
              => (Milli(20) <= _y_center.v /\ _y_center.v <= Milli(90))
         /\ (/\ ret.args.rotated
             /\ PolledStick["y"] = _y_center
             /\ PolledStick["x"].v >= 0)
              => (/\ ret.outcome = "ok"
                  /\ ret.value[3] = 0
                  /\ ret.value[4] = 0)

\* C24, witness: calibrated at 0.055 by the upward sweep, the handler was
\* polled with y = 0.055 and x at rest, and set no steering flag
C24_CenterPolledAfterSweep ==
  /\ _center_calibrated
  /\ _center_samples[1] = Float(20)
  /\ Len(_center_samples) > max_samples
  /\ _y_center = Float(55)
  /\ PolledStick = ("x" :> Float(0)) @@ ("y" :> Float(55))
  /\ ret.value = <<0, 0, 0, 0, DEFAULT_SPEED>>

\* C25: in rotated mode a negative x decides the steering alone, by the
\* direct deadzone rule (left = 1 iff x <= -0.1, right = 0), whatever y and
\* the center are; with x >= 0 the steering is that of the offset of y from
\* the center (0.057 before calibration): none within 0.1, else its sign.
C25_NegativeXOverridesOffsetAxis ==
  (ret.op = "parse_joycon_status" /\ ret.args.rotated)
    => \A x \in {PolledStick["x"].v}, y \in {PolledStick["y"].v} :
         /\ ret.outcome = "ok"
         /\ x < 0
              => /\ ret.value[3] = (IF x <= -JOYCON_DEADZONE THEN 1 ELSE 0)
                 /\ ret.value[4] = 0
         /\ x >= 0
              => \A offset \in {y - (IF _y_center = None THEN FallbackCenter
                                      ELSE _y_center.v)} :
                   /\ ret.value[3] =
                        (IF offset <= -JOYCON_DEADZONE THEN 1 ELSE 0)
                   /\ ret.value[4] =
                        (IF offset >= JOYCON_DEADZONE THEN 1 ELSE 0)

\* C25, witness: calibrated at 0.055, the handler was polled in rotated
\* mode with x = -0.5 and y = 0.5, and set left alone
C25_LeftFromXDespiteYFarRight ==
  /\ ret.op = "parse_joycon_status"
  /\ ret.args.rotated
  /\ _y_center = Float(55)
  /\ PolledStick = ("x" :> Float(-500)) @@ ("y" :> Float(500))
  /\ ret.value[3] = 1
  /\ ret.value[4] = 0

\* C26: when find_and_name_car(name) has returned, vehicle_list maps name
\* to the name of the device it returned, the vehicle list file holds the
\* document equal to vehicle_list, get_device_id(name) gives that
\* identifier, and connect_by_name(name) does not fail with ValueError.
C26_NamedCarRegisteredAndSaved ==
  (ret.op = "find_and_name_car" /\ ret.outcome = "ok")
    => /\ ret.value.kind = "BLEDevice"
       /\ Contains(QCAR, ret.value.name)
       /\ ret.args.new_name \in DOMAIN vehicle_list
       /\ vehicle_list[ret.args.new_name] = ret.value.name
       /\ vehicle_list_file = Document(vehicle_list)
       /\ get_device_id(vehicle_list, ret.args.new_name)
            = <<ret.value.name>>
       /\ \A found \in Nearby \cup {NoDevice}, up \in BOOLEAN :
            connect_by_name(ret.args.new_name, found, up).result.outcome
              # "ValueError"

\* C26, witness: "CAR2", registered with an empty device ID, was given to
\* the car found at the third attempt of the scan
C26_Car2NamedAtThirdAttempt ==
  /\ ret.op = "find_and_name_car"
  /\ ret.outcome = "ok"
  /\ ret.args.new_name = Car2Name
  /\ ret.attempts = 3
  /\ TestCarName \in DOMAIN vehicle_list
  /\ vehicle_list[Car2Name] = TestCarId
  /\ vehicle_list_file = Document(vehicle_list)

\* the attempts of the last scan that listed a device matching its
\* device_id (the pattern "QCAR" when it has none), and those whose
\* discover() raised something else than a timeout
ScanHits ==
  {i \in 1..MAX_SCAN_RETRIES :
     \E j \in DOMAIN ret.args.discoveries[i].devices :
       Matches(ret.args.discoveries[i].devices[j], ret.args.device_id, QCAR)}
ScanErrors ==
  {i \in 1..MAX_SCAN_RETRIES : ret.args.discoveries[i].kind = "error"}
Least(S) == CHOOSE i \in S : \A j \in S : i <= j

C27_CommandIsSixteenBytes ==
  ret.op = "get_joycon_command" =>
    /\ ret.outcome = "ok"
    /\ Len(ret.value) = 16

C29_MalformedRequestRefused ==
  (/\ ret.op = "retrieve_precomputed_message"
   /\ ~ValidParameters(ret.args[1], ret.args[2], ret.args[3], ret.args[4],
                       ret.args[5]))
    => ret.outcome = "ValueError"

\* the last poll reported 0.0 on the offset axis
ZeroSamplePolled ==
  \E device_type \in {"Plus", "Minus"}, x \in {-500, -99, 0} :
    ret.args.status =
      Snapshot(device_type, {},
               PyDict(("x" :> Float(x)) @@ ("y" :> Float(0))))

\* C31: in rotated mode a poll whose offset-axis sample is 0.0 changes
\* neither _y_min, _y_max, _center_samples, _y_center nor
\* _center_calibrated; every other poll adds one sample, and the handler is
\* calibrated, its center set, exactly from the poll that brings the
\* 100th non-zero sample on
C31_CalibratedAtHundredthNonZeroSample ==
  [][ret'.op = "parse_joycon_status" =>
       /\ ret'.args.rotated
       /\ IF ZeroSamplePolled' THEN UNCHANGED handler
          ELSE Len(_center_samples') = Len(_center_samples) + 1
       /\ _center_calibrated' <=> Len(_center_samples') >= max_samples
       /\ (_y_center' = None) <=> ~_center_calibrated']_vars

\* C31, witness: the poll that brought the 100th non-zero sample has
\* calibrated the handler at 0.055: the buffer holds 100 samples, none of
\* them 0.0
C31_CalibratedByHundredthSample ==
  /\ ret.op = "parse_joycon_status"
  /\ ~ZeroSamplePolled
  /\ Len(_center_samples) = max_samples
  /\ \A i \in 1..max_samples : _center_samples[i].v # 0
  /\ _center_calibrated
  /\ _y_center = Float(55)

\* C32: a rotated poll whose x is not negative steers from the offset axis
\* around the center in force once the poll has taken its sample, 0.057
\* while the handler is not calibrated and _y_center once it is: right is
\* 1 iff y - center >= 0.1, left is 1 iff y - center <= -0.1
C32_OffsetAxisSteersAroundCenter ==
  [][(ret'.op = "parse_joycon_status" /\ PolledStick'["x"].v >= 0) =>
       \E y \in {PolledStick'["y"].v},
          center \in {IF _center_calibrated' THEN _y_center'.v
                      ELSE FallbackCenter} :
         /\ ret'.args.rotated
         /\ ret'.outcome = "ok"
         /\ ret'.value[4] = (IF y - center >= JOYCON_DEADZONE THEN 1 ELSE 0)
         /\ ret'.value[3] =
              (IF y - center <= 0 - JOYCON_DEADZONE THEN 1 ELSE 0)]_vars

\* C32, witness: calibrated at 0.055 by the sweep, the handler is polled
\* with x at rest and y = -0.045, the center less the deadzone, and steers
\* left
C32_LeftAtDeadzoneBelowCenter ==
  /\ ret.op = "parse_joycon_status"
  /\ ret.args.status =
       Snapshot("Plus", {}, PyDict(("x" :> Float(0)) @@ ("y" :> Float(-45))))
  /\ _center_calibrated
  /\ _y_center = Float(55)
  /\ ret.value[3] = 1
  /\ ret.value[4] = 0

\* C32, second witness: not yet calibrated, the handler is polled with x
\* at rest and y = 0.157, the fallback center plus the deadzone, and
\* steers right
C32_RightAtDeadzoneAboveFallback ==
  /\ ret.op = "parse_joycon_status"
  /\ PolledStick["x"] = Float(0)
  /\ PolledStick["y"] = Float(157)
  /\ ~_center_calibrated
  /\ ret.value[3] = 0
  /\ ret.value[4] = 1

\* C33: a poll in direct mode leaves _y_min, _y_max, _center_samples,
\* _y_center and _center_calibrated as they were, and returns what the same
\* poll returns on a handler that was never polled
C33_DirectPollLeavesCalibration ==
  /\ [][(ret'.op = "parse_joycon_status" /\ ~ret'.args.rotated)
          => UNCHANGED handler]_vars
  /\ []((ret.op = "parse_joycon_status" /\ ~ret.args.rotated) =>
          \E fresh \in {parse_joycon_status(
                           NewHandler, ret.args.status, ret.args.device_type,
                           ret.args.current_speed, FALSE, ret.args.info)} :
            /\ ret.outcome = fresh.outcome
            /\ ret.value = fresh.value
            /\ fresh.h = NewHandler)

\* C33, witness: a handler that has taken samples up to 0.157 in rotated
\* mode is polled in direct mode with sr held and the stick at y = 0.5, and
\* returns forward alone; its samples are still there
C33_DirectPollAfterRotatedPolls ==
  /\ ret.op = "parse_joycon_status"
  /\ ~ret.args.rotated
  /\ ret.args.status = Snapshot("Plus", {"sr"}, PyDict("y" :> Float(500)))
  /\ ret.value = <<1, 0, 0, 0, DEFAULT_SPEED>>
  /\ Len(_center_samples) >= 1
  /\ _y_max = Float(157)

\* the valid control states, the key of each, and the keys there are
ControlStates ==
  {<<f, b, l, r, s>> :
     f \in {0, 1}, b \in {0, 1}, l \in {0, 1}, r \in {0, 1}, s \in 0..255}
StateKey == [s \in ControlStates |-> KeyOf(s)]
ControlKeys == {StateKey[s] : s \in ControlStates}

\* C34: no two of the 4096 valid control states have the same key, and
\* when a retrieval for a valid state finds its key in command_list, no
\* other valid state has that key
C34_KeyInjectiveOnControlStates ==
  /\ Cardinality(ControlKeys) = Cardinality(ControlStates)
  /\ (/\ ret.op = "retrieve_precomputed_message"
      /\ ret.args \in ControlStates
      /\ StateKey[ret.args] \in DOMAIN command_list)
       => \A s \in ControlStates : StateKey[s] = StateKey[ret.args] => s = ret.args

\* C34, witness: after precompute_messages the retrieval of forward at 100
\* found its key "1000100" and returned the command stored under it
C34_HitForForwardAtHundred ==
  /\ ret.op = "retrieve_precomputed_message"
  /\ ret.args = <<1, 0, 0, 0, 100>>
  /\ StateKey[ret.args] = <<49, 48, 48, 48, 49, 48, 48>>
  /\ StateKey[ret.args] \in DOMAIN command_list
  /\ b64decode(command_list[StateKey[ret.args]]) = Ok(ret.value)
  /\ ret.value = _create_message(1, 0, 0, 0, 100).value

\* C35: when the entry stored under the key of the request is not empty
\* and base64.b64decode raises on it, retrieve_precomputed_message returns
\* IDLE_MESSAGE, and command_list is as before
C35_UndecodableEntryGivesIdle ==
  [][(/\ ret'.op = "retrieve_precomputed_message"
      /\ Held(ret'.args)
      /\ command_list[KeyOf(ret'.args)] # <<>>
      /\ b64decode(command_list[KeyOf(ret'.args)]).outcome # "ok")
       => /\ ret'.outcome = "ok"
          /\ ret'.value = IDLE_MESSAGE
          /\ command_list' = command_list]_vars

\* C35, witness: with "AA" stored under "000080", the retrieval of no flag
\* at the default speed returned IDLE_MESSAGE, which is not the command of
\* that state, and the entry is still there
C35_IdleForUndecodableEntry ==
  /\ ret.op = "retrieve_precomputed_message"
  /\ ret.args = <<0, 0, 0, 0, DEFAULT_SPEED>>
  /\ Held(ret.args)
  /\ command_list[KeyOf(ret.args)] = <<65, 65>>
  /\ b64decode(<<65, 65>>).outcome = "binascii.Error"
  /\ ret.value = IDLE_MESSAGE
  /\ ret.value # _create_message(0, 0, 0, 0, DEFAULT_SPEED).value

\* C36: in the tuple parse_joycon_status returns, in direct or in rotated
\* mode, for "Plus", "Minus" or another device_type, whatever the snapshot
\* and the calibration state, left and right are each 0 or 1 and not both 1
C36_LeftAndRightExclusive ==
  (ret.op = "parse_joycon_status" /\ ret.outcome = "ok") =>
    /\ Len(ret.value) = 5
    /\ ret.value[3] \in {0, 1}
    /\ ret.value[4] \in {0, 1}
    /\ ret.value[3] + ret.value[4] <= 1

\* C36, witness: a rotated poll of "Minus" with x = -0.5 and y = 0.157, far
\* right of the fallback center, returned left alone
C36_LeftAloneWithBothAxesAway ==
  /\ ret.op = "parse_joycon_status"
  /\ ret.args.rotated
  /\ ret.args.device_type = "Minus"
  /\ ret.args.status =
       Snapshot("Minus", {},
                PyDict(("x" :> Float(-500)) @@ ("y" :> Float(157))))
  /\ ret.outcome = "ok"
  /\ ret.value[3] = 1
  /\ ret.value[4] = 0

\* C37: connect() called on a connected car disconnects the client it
\* holds before it scans, and makes at most one connection, after the scan;
\* when connect() or connect_by_name() succeeds the car is connected, its
\* one client being that of the device found for the requested device ID
C37_DisconnectsBeforeConnecting ==
  [][/\ (~LinkDrop /\ ret'.op = "connect") =>
          ret'.steps =
            (IF is_connected THEN <<LinkOp("disconnect", client.address)>>
             ELSE <<>>)
            \o <<LinkOp("scan", "")>>
            \o (IF ret'.outcome = "TimeoutError" THEN <<>>
                ELSE <<LinkOp("connect", client'.address)>>)
     /\ (/\ ~LinkDrop
         /\ ret'.op \in {"connect", "connect_by_name"}
         /\ ret'.outcome = "ok")
          => /\ is_connected'
             /\ device'.kind = "BLEDevice"
             /\ client'.address = device'.address
             /\ Matches(device',
                        IF ret'.op = "connect" THEN ret'.args
                        ELSE ret'.value[1], QCAR)]_vars

\* C37, witness: connected to "QCAR-0000001", the car was asked to connect
\* to "QCAR-0000044": it disconnected the first client, scanned, connected
\* the second, and holds the second alone
C37_SwitchedToOtherCar ==
  /\ ret.op = "connect"
  /\ ret.args = OtherCarId
  /\ ret.connected
  /\ ret.outcome = "ok"
  /\ ret.steps = <<LinkOp("disconnect", "00:11:22:33:44:55"),
                   LinkOp("scan", ""),
                   LinkOp("connect", "00:11:22:33:44:66")>>
  /\ is_connected
  /\ client = BleakClient("00:11:22:33:44:66", TRUE)
  /\ device = BLEDevice(OtherCarId, "00:11:22:33:44:66")

\* C38: when connect() or connect_by_name() ends in the TimeoutError of
\* the scan or in the ConnectionError of the link, is_connected() is false
\* afterwards, whether or not the car was connected before
C38_FailedConnectLeavesDisconnected ==
  [][(/\ ~LinkDrop
      /\ ret'.op \in {"connect", "connect_by_name"}
      /\ ret'.outcome \in {"TimeoutError", "ConnectionError"})
       => ~is_connected']_vars

\* C38, witness: a connected car was asked to connect, the scan found
\* nothing, and the car is no longer connected
C38_ScanTimeoutDroppedConnection ==
  /\ ret.op = "connect"
  /\ ret.connected
  /\ ret.outcome = "TimeoutError"
  /\ ret.steps = <<LinkOp("disconnect", "00:11:22:33:44:55"),
                   LinkOp("scan", "")>>
  /\ ~is_connected
  /\ client = NoClient

\* C39: disconnect() returns normally and leaves is_connected() false,
\* whether or not client.disconnect() raised; on a car that is not
\* connected it touches neither the link nor the flag, the client and the
\* device; __aexit__ does as disconnect() does and lets what the body
\* raised through
C39_DisconnectNeverRaises ==
  [][(~LinkDrop /\ ret'.op \in {"disconnect", "__aexit__"}) =>
       /\ ~is_connected'
       /\ ret'.op = "disconnect" => ret'.outcome = "ok"
       /\ ret'.op = "__aexit__" =>
            ret'.outcome = (IF ret'.args[1] THEN "Exception" ELSE "ok")
       /\ IF is_connected
          THEN /\ ret'.steps = <<LinkOp("disconnect", client.address)>>
               /\ ~_is_connected' /\ client' = NoClient /\ device' = NoDevice
          ELSE /\ ret'.steps = <<>>
               /\ UNCHANGED <<_is_connected, client, device>>]_vars

\* C39, witness: the body of "async with car:" raised on a connected car
\* and client.disconnect() raised in __aexit__: the car is disconnected and
\* the caller gets what the body raised
C39_ExitAfterBodyRaisedAndDisconnectFailed ==
  /\ ret.op = "__aexit__"
  /\ ret.args = <<TRUE, TRUE>>
  /\ ret.connected
  /\ ret.outcome = "Exception"
  /\ ret.steps = <<LinkOp("disconnect", "00:11:22:33:44:55")>>
  /\ ~is_connected
  /\ ~_is_connected
  /\ client = NoClient
====
